---- MODULE Spec2Model ----
(***************************************************************************)
(* Model of the chat-to-assistant relay: the per-chat TaskQueue            *)
(* (task-queue.js), and the path a chat message takes through the          *)
(* Telegram / Feishu adapters into callClaude (claude-caller.js) and the   *)
(* SessionManager (session-manager.js), the SessionManager with its        *)
(* debounced writes, and the ShortcutsManager (shortcuts-manager.js).      *)
(*                                                                         *)
(* Abstractions.  A prompt is represented by what the code inspects of it: *)
(* whether it is a string and its length.  Task ids (Date.now() in base 36 *)
(* plus a random suffix) are modelled as fresh numbers handed out in       *)
(* enqueue order.  Timestamps (addedAt, startedAt, updatedAt) are not      *)
(* modelled, except createdAt of a shortcut.  A shortcut name is the       *)
(* sequence of its characters, a shortcut command the sequence of its      *)
(* words and blanks.                                                       *)
(***************************************************************************)
EXTENDS Integers, Sequences, FiniteSets, Bags, TLC

(* ------------------------------------------------------------------ *)
(* Program constants                                                   *)
(* ------------------------------------------------------------------ *)
MAX_QUEUE_SIZE == 10

MAX_TASK_CONTENT_LENGTH == 10000

RATE_LIMIT_MAX == 10

MAX_MESSAGE_LENGTH == 10000

MAX_SHORTCUTS_PER_USER == 20

MAX_SHORTCUT_NAME_LENGTH == 20

MAX_SHORTCUT_CONTENT_LENGTH == 1000

MAX_PROMPT_LENGTH == 10000

MAX_PATH_LENGTH == 500

\* session-manager.js: the age above which a lock file is abandoned, ms
LOCK_STALE_MS == 10000

\* session-manager.js: maxWait of acquireLock, ms
MAX_WAIT_MS == 5000

(* ------------------------------------------------------------------ *)
(* Bounds of the model                                                 *)
(* ------------------------------------------------------------------ *)
\* task ids handed out in the specification that exercises every input
MaxTasks == 3

\* task ids handed out in the specification that fills one queue
MaxCapTasks == 11

\* tasks enqueued in the specification that runs a queue to completion
MaxRunTasks == 10

\* task ids handed out in the specification with process handles
MaxProcTasks == 3

\* process handles that can be registered with the queue
MaxProcs == 2

\* forced-kill timers pending per chat
MaxTimers == 1

\* callClaude invocations of the adapter that can be unfinished at once
MaxCalls == 2

\* session-store mutations made while one save timer is pending
MaxBurst == 3

\* callClaude invocations made in the specification of the caller
MaxInvocations == 2

\* the grain of time in the model of the lock file, ms
TimeStep == 2500

\* messages of a chat that get past the rate limit in one window, and
\* unfinished calls, in the specification of the whitelist
MaxAuthMessages == 1

Chats == {"c1", "c2"}

CapChats == {"c1"}

Procs == 1..MaxProcs

NoProc == 0

(* ------------------------------------------------------------------ *)
(* Values                                                              *)
(* ------------------------------------------------------------------ *)
\* the argument `task` of addTask: absent, or an object whose prompt is a
\* string of some length or is not a string
NoTaskArg == [isTask |-> FALSE, isString |-> FALSE, length |-> 0]

NonStringTask == [isTask |-> TRUE, isString |-> FALSE, length |-> 0]

StringTask(n) == [isTask |-> TRUE, isString |-> TRUE, length |-> n]

PromptLengths == {0, 1, MAX_TASK_CONTENT_LENGTH, MAX_TASK_CONTENT_LENGTH + 1}

TaskArgs == {NoTaskArg, NonStringTask} \cup {StringTask(n) : n \in PromptLengths}

CapTaskArgs == {StringTask(1)}

\* null for currentTask
NullTask == [id |-> 0, prompt |-> 0, status |-> "none"]

\* what getQueue creates for a chat it has not seen
EmptyQueueData ==
    [queue |-> <<>>, currentTask |-> NullTask, isProcessing |-> FALSE,
     currentProcess |-> NoProc]

\* SessionManager: an absent key, an undefined projectDir, a null sessionId
NoDir == "undefined"

NullSid == "null"

\* a record without any field besides projectDir, sessionId and updatedAt
NoExtra == "none"

NoSession ==
    [exists |-> FALSE, projectDir |-> NoDir, sessionId |-> NullSid, extra |-> NoExtra]

\* project directories set with setProjectDir / updateSessionId
ProjectDirs == {"/a", "/b"}

\* the directories the bystander chat of the store specification is given
StoreDirs(c) == IF c \in CapChats THEN ProjectDirs ELSE {"/a"}

\* session ids passed to updateSessionId in the store specification
StoreSessionIds == {"s1"}

\* the sessionInfo objects passed to setSession: one with a field besides
\* projectDir and sessionId, and the empty object
SessionInfos ==
    {[projectDir |-> "/a", sessionId |-> "s1", extra |-> "x"],
     [projectDir |-> NoDir, sessionId |-> NullSid, extra |-> NoExtra]}

\* no call made on the SessionManager yet
NoCall == [op |-> "none", chat |-> "none", projectDir |-> NoDir]

\* session ids the assistant hands out
SessionIds == {"s1", "s2"}

\* TelegramClaudeBot.defaultProjectDir
DefaultProjectDir == "/default"

\* TelegramClaudeBot.requireAuth, at its default
RequireAuth == TRUE

\* the whitelists TELEGRAM_ALLOWED_CHAT_IDS the bot is started with
Whitelists == {{}, {"c1"}}

\* lengths of the text of an inbound message
MessageLengths == {0, 1, MAX_MESSAGE_LENGTH, MAX_MESSAGE_LENGTH + 1}

\* how the assistant subprocess closes: exit code 0 with a JSON session_id,
\* exit code 0 without one, a non-zero exit with or without an
\* invalid-session marker on stderr
CloseOutcomes ==
    {[success |-> TRUE, sessionId |-> sid, invalidSession |-> FALSE] : sid \in SessionIds}
    \cup {[success |-> TRUE, sessionId |-> NullSid, invalidSession |-> FALSE],
          [success |-> FALSE, sessionId |-> NullSid, invalidSession |-> TRUE],
          [success |-> FALSE, sessionId |-> NullSid, invalidSession |-> FALSE]}

\* the result of a timeout and of a spawn failure
FailureResult == [success |-> FALSE, sessionId |-> NullSid, invalidSession |-> FALSE]

NoRet == [op |-> "none", chat |-> "none", ok |-> FALSE, val |-> 0, err |-> "none"]

VARIABLES
    queues,          \* TaskQueue.queues: chat -> queueData
    nextId,          \* the next fresh task id
    ret,             \* the value returned by the last TaskQueue call
    procSignals,     \* process handle -> signals delivered to it by kill()
    killTimers,      \* chat -> number of pending forced-kill timers
    lastDispatched,  \* history: chat -> id of the task startProcessing returned last
    lastCancelled,   \* history: chat -> id of the task cancelCurrent removed last
    allowedChatIds,  \* TelegramClaudeBot.allowedChatIds: the whitelist, or null
    rateLimits,      \* TelegramClaudeBot.rateLimits: chat -> count in the open window
    sessions,        \* SessionManager.sessions: chat -> record, or absent
    saveTimer,       \* SessionManager.saveTimer is set
    saveTimers,      \* number of setTimeout callbacks of save() not yet run
    pendingSave,     \* SessionManager.pendingSave
    dataFile,        \* the content of sessions.json
    calls,           \* the callClaude invocations of handleMessage not yet finished
    lastCall,        \* history: the last call made on the SessionManager
    burst,           \* history: mutations since the pending save timer was armed
    windowWrites,    \* history: writes of sessions.json since that timer was armed
    flushed,         \* history: the sessions map as of the last completed write
    lost,            \* history: the last restart dropped unwritten mutations
    shortcuts,       \* ShortcutsManager.shortcuts: chat -> its shortcuts, or absent
    shortcutsFile,   \* the content of shortcuts.json
    sret,            \* the value returned by the last setShortcut or deleteShortcut
    expanded,        \* the expandShortcut call made last, if no other call followed it
    invocations,     \* the callClaude invocations made so far, in the order of the calls
    tempFiles,       \* the prompt files present in os.tmpdir(), by the time in their name
    clock,           \* the value of Date.now() at the last call of callClaude
    lockFile,        \* sessions.json.lock: absent, or its writer and its age in ms
    savers           \* OS process -> where it is in _doSave, and how long it has waited

queueVars ==
    <<queues, nextId, ret, procSignals, killTimers, lastDispatched, lastCancelled>>

histVars == <<lastCall, burst, windowWrites, flushed, lost>>

shortcutVars == <<shortcuts, shortcutsFile, sret, expanded>>

callerVars == <<invocations, tempFiles, clock>>

lockVars == <<lockFile, savers>>

botVars ==
    <<allowedChatIds, rateLimits, sessions, saveTimer, saveTimers, pendingSave,
      dataFile, calls, histVars, shortcutVars, callerVars, lockVars>>

vars == <<queueVars, botVars>>

(* ------------------------------------------------------------------ *)
(* Helpers                                                             *)
(* ------------------------------------------------------------------ *)
\* Array.prototype.findIndex(t => t.id === id): 1-based here, 0 for -1
FindIndex(q, id) ==
    IF \E i \in 1..Len(q) : q[i].id = id
    THEN CHOOSE i \in 1..Len(q) :
            /\ q[i].id = id
            /\ \A j \in 1..(i - 1) : q[j].id # id
    ELSE 0

\* Array.prototype.splice(index, 1)
Splice(q, index) ==
    [i \in 1..(Len(q) - 1) |-> IF i < index THEN q[i] ELSE q[i + 1]]

\* Array.prototype.filter(t => t.id === id)
FilterId(q, id) == SelectSeq(q, LAMBDA t : t.id = id)

(* ------------------------------------------------------------------ *)
(* TaskQueue                                                           *)
(* ------------------------------------------------------------------ *)
QueueFrame == UNCHANGED <<procSignals, killTimers, botVars>>

\* faulty variant: the size test off by one (> instead of >=)
QueueIsFull_OffByOne(qd) == Len(qd.queue) > MAX_QUEUE_SIZE

\* the test `queueData.queue.length >= MAX_QUEUE_SIZE`
QueueIsFull(qd) == Len(qd.queue) >= MAX_QUEUE_SIZE

\* the test `!task || typeof task.prompt !== 'string'`
InvalidTaskFormat(task) == ~task.isTask \/ ~task.isString

\* the test `task.prompt.length > MAX_TASK_CONTENT_LENGTH`
TaskTooLong(task) == task.length > MAX_TASK_CONTENT_LENGTH

AddTask(c, task) ==
    /\ QueueFrame
    /\ UNCHANGED <<lastDispatched, lastCancelled>>
    /\ IF InvalidTaskFormat(task)
       THEN /\ ret' = [op |-> "addTask", chat |-> c, ok |-> FALSE, val |-> -1,
                       err |-> "Invalid task format"]
            /\ UNCHANGED <<queues, nextId>>
       ELSE IF TaskTooLong(task)
       THEN /\ ret' = [op |-> "addTask", chat |-> c, ok |-> FALSE, val |-> -1,
                       err |-> "Task content too long"]
            /\ UNCHANGED <<queues, nextId>>
       ELSE IF QueueIsFull(queues[c])
       THEN /\ ret' = [op |-> "addTask", chat |-> c, ok |-> FALSE, val |-> -1,
                       err |-> "Queue full"]
            /\ UNCHANGED <<queues, nextId>>
       ELSE /\ queues' = [queues EXCEPT ![c].queue =
                            Append(@, [id |-> nextId, prompt |-> task.length,
                                       status |-> "pending"])]
            /\ nextId' = nextId + 1
            /\ ret' = [op |-> "addTask", chat |-> c, ok |-> TRUE,
                       val |-> Len(queues[c].queue) + 1, err |-> "none"]

\* faulty variant: startProcessing without the isProcessing test
CannotStart_IgnoresProcessing(qd) == Len(qd.queue) = 0

\* the early return of startProcessing
CannotStart(qd) == qd.isProcessing \/ Len(qd.queue) = 0

\* faulty variant: the newest task instead of the oldest
NextTaskIndex_Last(qd) == Len(qd.queue)

\* the task startProcessing takes: queue[0]
NextTaskIndex(qd) == 1

StartProcessing(c) ==
    /\ QueueFrame
    /\ UNCHANGED <<nextId, lastCancelled>>
    /\ IF CannotStart(queues[c])
       THEN /\ ret' = [op |-> "startProcessing", chat |-> c, ok |-> FALSE, val |-> 0,
                       err |-> "none"]
            /\ UNCHANGED <<queues, lastDispatched>>
       ELSE LET i == NextTaskIndex(queues[c])
                t == [queues[c].queue[i] EXCEPT !.status = "processing"]
            IN /\ queues' = [queues EXCEPT ![c].isProcessing = TRUE,
                                           ![c].currentTask = t,
                                           ![c].queue[i] = t]
               /\ ret' = [op |-> "startProcessing", chat |-> c, ok |-> TRUE,
                          val |-> t.id, err |-> "none"]
               /\ lastDispatched' = [lastDispatched EXCEPT ![c] = t.id]

\* faulty variant: completeTask that forgets to null currentTask
CompleteTaskData_KeepsCurrent(qd, taskId) ==
    LET index == FindIndex(qd.queue, taskId)
    IN [qd EXCEPT !.queue = IF index # 0 THEN Splice(@, index) ELSE @,
                  !.isProcessing = FALSE]

\* faulty variant: completeTask that leaves the task in the queue
CompleteTaskData_KeepsInQueue(qd, taskId) ==
    [qd EXCEPT !.currentTask = NullTask, !.isProcessing = FALSE]

\* queueData after completeTask(chatId, taskId)
CompleteTaskData(qd, taskId) ==
    LET index == FindIndex(qd.queue, taskId)
    IN [qd EXCEPT !.queue = IF index # 0 THEN Splice(@, index) ELSE @,
                  !.currentTask = NullTask,
                  !.isProcessing = FALSE]

CompleteTask(c, taskId) ==
    /\ QueueFrame
    /\ UNCHANGED <<nextId, lastDispatched, lastCancelled>>
    /\ queues' = [queues EXCEPT ![c] = CompleteTaskData(@, taskId)]
    /\ ret' = [op |-> "completeTask", chat |-> c, ok |-> TRUE, val |-> 0, err |-> "none"]

SetCurrentProcess(c, process) ==
    /\ queues' = [queues EXCEPT ![c].currentProcess = process]
    /\ ret' = [op |-> "setCurrentProcess", chat |-> c, ok |-> TRUE, val |-> 0,
               err |-> "none"]
    /\ UNCHANGED <<nextId, procSignals, killTimers, lastDispatched, lastCancelled>>
    /\ UNCHANGED botVars

\* faulty variant: the early return taken only for an empty queue
NothingRunning_EmptyQueue(qd) == Len(qd.queue) = 0

\* the early return of cancelCurrent
NothingRunning(qd) == ~qd.isProcessing \/ qd.currentTask = NullTask

\* faulty variant: cancelCurrent that leaves the cancelled task in the queue
CancelledQueue_KeepsTask(qd) == qd.queue

\* the queue cancelCurrent leaves: the cancelled task spliced out
CancelledQueue(qd) ==
    LET index == FindIndex(qd.queue, qd.currentTask.id)
    IN IF index # 0 THEN Splice(qd.queue, index) ELSE qd.queue

CancelCurrent(c) ==
    /\ UNCHANGED <<nextId, lastDispatched>>
    /\ UNCHANGED botVars
    /\ IF NothingRunning(queues[c])
       THEN /\ ret' = [op |-> "cancelCurrent", chat |-> c, ok |-> FALSE, val |-> 0,
                       err |-> "No task is currently running"]
            /\ UNCHANGED <<queues, procSignals, killTimers, lastCancelled>>
       ELSE LET qd == queues[c]
                cancelledTask == qd.currentTask
            IN /\ IF qd.currentProcess # NoProc
                  THEN /\ procSignals' = [procSignals EXCEPT ![qd.currentProcess] =
                                             @ \cup {"SIGTERM"}]
                       /\ killTimers' = [killTimers EXCEPT ![c] = @ + 1]
                  ELSE UNCHANGED <<procSignals, killTimers>>
               /\ queues' = [queues EXCEPT
                                ![c].currentTask = NullTask,
                                ![c].isProcessing = FALSE,
                                ![c].currentProcess = NoProc,
                                ![c].queue = CancelledQueue(qd)]
               /\ ret' = [op |-> "cancelCurrent", chat |-> c, ok |-> TRUE,
                          val |-> cancelledTask.id, err |-> "Task cancelled"]
               /\ lastCancelled' = [lastCancelled EXCEPT ![c] = cancelledTask.id]

\* the callback of the setTimeout in cancelCurrent: it reads
\* queueData.currentProcess when it runs; a null handle throws inside the try
ForceKillTimer(c) ==
    /\ killTimers[c] > 0
    /\ killTimers' = [killTimers EXCEPT ![c] = @ - 1]
    /\ IF queues[c].currentProcess # NoProc
       THEN procSignals' = [procSignals EXCEPT ![queues[c].currentProcess] =
                               @ \cup {"SIGKILL"}]
       ELSE UNCHANGED procSignals
    /\ UNCHANGED <<queues, nextId, ret, lastDispatched, lastCancelled>>
    /\ UNCHANGED botVars

\* faulty variant: the count without the processing task taken off
ClearedCount_WholeQueue(qd) == Len(qd.queue)

\* the clearedCount clearQueue computes before it filters
ClearedCount(qd) == Len(qd.queue) - (IF qd.isProcessing THEN 1 ELSE 0)

\* the queue clearQueue leaves
ClearedQueue(qd) ==
    IF qd.isProcessing /\ qd.currentTask # NullTask
    THEN FilterId(qd.queue, qd.currentTask.id)
    ELSE <<>>

ClearQueue(c) ==
    /\ QueueFrame
    /\ UNCHANGED <<nextId, lastDispatched, lastCancelled>>
    /\ queues' = [queues EXCEPT ![c].queue = ClearedQueue(queues[c])]
    /\ ret' = [op |-> "clearQueue", chat |-> c, ok |-> TRUE,
               val |-> ClearedCount(queues[c]), err |-> "none"]

\* String.prototype.substring(0, n) of a prompt, followed by '...'
Preview(prompt, n) == (IF prompt < n THEN prompt ELSE n) + 3

\* Array.prototype.slice(start), start counted from 0
Slice(q, start) == SubSeq(q, start + 1, Len(q))

\* what getStatus(chatId) returns
GetStatus(qd) ==
    [queueLength |-> Len(qd.queue),
     isProcessing |-> qd.isProcessing,
     currentTask |-> IF qd.currentTask # NullTask
                     THEN [id |-> qd.currentTask.id,
                           prompt |-> Preview(qd.currentTask.prompt, 50)]
                     ELSE NullTask,
     pendingTasks |-> LET pending == Slice(qd.queue, IF qd.isProcessing THEN 1 ELSE 0)
                      IN [i \in 1..Len(pending) |->
                             [position |-> i, id |-> pending[i].id,
                              prompt |-> Preview(pending[i].prompt, 30)]]]

(* ------------------------------------------------------------------ *)
(* SessionManager                                                      *)
(* ------------------------------------------------------------------ *)
\* getSession(platform, chatId): the record, NoSession standing for null
GetSession(sess, c) == sess[c]

\* sessions after setSession(platform, chatId, sessionInfo)
SetSession(sess, c, sessionInfo) ==
    [sess EXCEPT ![c] = [exists |-> TRUE,
                         projectDir |-> sessionInfo.projectDir,
                         sessionId |-> sessionInfo.sessionId,
                         extra |-> sessionInfo.extra]]

\* faulty variant: the projectDir argument taken even when it is omitted
ProjectDirOrExisting_Argument(projectDir, existing) == projectDir

\* the expression `projectDir || existing.projectDir`
ProjectDirOrExisting(projectDir, existing) ==
    IF projectDir # NoDir THEN projectDir ELSE existing.projectDir

\* sessions after updateSessionId(platform, chatId, sessionId, projectDir)
UpdateSessionId(sess, c, sessionId, projectDir) ==
    [sess EXCEPT ![c] = [exists |-> TRUE,
                         sessionId |-> sessionId,
                         projectDir |-> ProjectDirOrExisting(projectDir, @),
                         extra |-> @.extra]]

\* faulty variant: setProjectDir that builds the record anew
SetProjectDir_NoSpread(sess, c, projectDir) ==
    [sess EXCEPT ![c] = [exists |-> TRUE, projectDir |-> projectDir,
                         sessionId |-> NullSid, extra |-> NoExtra]]

\* sessions after setProjectDir(platform, chatId, projectDir)
SetProjectDir(sess, c, projectDir) ==
    [sess EXCEPT ![c] = [exists |-> TRUE, projectDir |-> projectDir,
                         sessionId |-> @.sessionId, extra |-> @.extra]]

\* faulty variant: clearSession that drops the whole record
ClearSession_DropsRecord(sess, c) == [sess EXCEPT ![c] = NoSession]

\* sessions after clearSession(platform, chatId)
ClearSession(sess, c) ==
    [sess EXCEPT ![c] = [exists |-> TRUE, projectDir |-> @.projectDir,
                         sessionId |-> NullSid, extra |-> NoExtra]]

\* JSON.stringify(this.sessions): the keys that are present with their
\* records; a key whose value is undefined is left out of the text, and
\* reads back as undefined
Stringify(sess) ==
    [c \in {k \in DOMAIN sess : sess[k].exists} |->
        [projectDir |-> sess[c].projectDir, sessionId |-> sess[c].sessionId,
         extra |-> sess[c].extra]]

\* JSON.parse(data)
Parse(data) ==
    [c \in Chats |->
        IF c \in DOMAIN data
        THEN [exists |-> TRUE, projectDir |-> data[c].projectDir,
              sessionId |-> data[c].sessionId, extra |-> data[c].extra]
        ELSE NoSession]

\* faulty variant: load() that takes its fallback
Load_Empty(file) == [c \in Chats |-> NoSession]

\* load(): the parsed content of the data file ({} when there is none)
Load(file) == Parse(file)

\* faulty variant: save() without the test of saveTimer
TimerArmed_Never == FALSE

\* the test `if (this.saveTimer) return` of save()
TimerArmed == saveTimer

\* save(): mark the map dirty and arm the debounce timer unless it is armed
Save ==
    /\ pendingSave' = TRUE
    /\ IF TimerArmed
       THEN UNCHANGED <<saveTimer, saveTimers>>
       ELSE /\ saveTimer' = TRUE
            /\ saveTimers' = saveTimers + 1

\* faulty variant: the callback leaves the handle of the timer in saveTimer
SaveTimerCallback_KeepsHandle(written) ==
    /\ saveTimers > 0
    /\ saveTimers' = saveTimers - 1
    /\ UNCHANGED saveTimer
    /\ IF ~pendingSave
       THEN UNCHANGED <<pendingSave, dataFile>>
       ELSE /\ pendingSave' = FALSE
            /\ dataFile' = IF written THEN Stringify(sessions) ELSE dataFile

\* the callback of the debounce timer, with _doSave; `written` tells whether
\* acquireLock and writeFileSync went through or threw (the file is then as
\* it was)
SaveTimerCallback(written) ==
    /\ saveTimers > 0
    /\ saveTimers' = saveTimers - 1
    /\ saveTimer' = FALSE
    /\ IF ~pendingSave
       THEN UNCHANGED <<pendingSave, dataFile>>
       ELSE /\ pendingSave' = FALSE
            /\ dataFile' = IF written THEN Stringify(sessions) ELSE dataFile

\* the timer callback in the adapter
SaveTimerFires ==
    /\ \E written \in BOOLEAN : SaveTimerCallback(written)
    /\ UNCHANGED <<allowedChatIds, rateLimits, sessions, calls>>
    /\ UNCHANGED <<queueVars, histVars, shortcutVars, callerVars, lockVars>>

\* a mutating call of the SessionManager API: the new map, then save()
Mutate(c, op, projectDir, newSessions) ==
    /\ sessions' = newSessions
    /\ Save
    /\ lastCall' = [op |-> op, chat |-> c, projectDir |-> projectDir]
    /\ burst' = IF saveTimers > 0 THEN burst + 1 ELSE 1
    /\ windowWrites' = IF saveTimers > 0 THEN windowWrites ELSE 0
    /\ lost' = FALSE
    /\ UNCHANGED <<allowedChatIds, rateLimits, dataFile, calls, flushed>>
    /\ UNCHANGED <<queueVars, shortcutVars, callerVars, lockVars>>

CallSetSession(c, sessionInfo) ==
    Mutate(c, "setSession", NoDir, SetSession(sessions, c, sessionInfo))

CallUpdateSessionId(c, sessionId, projectDir) ==
    Mutate(c, "updateSessionId", projectDir,
           UpdateSessionId(sessions, c, sessionId, projectDir))

CallSetProjectDir(c, projectDir) ==
    Mutate(c, "setProjectDir", projectDir, SetProjectDir(sessions, c, projectDir))

CallClearSession(c) ==
    Mutate(c, "clearSession", NoDir, ClearSession(sessions, c))

\* the timer callback, with the history of the writes
StoreTimerFires(written) ==
    /\ SaveTimerCallback(written)
    /\ lastCall' = [op |-> "timer", chat |-> "none", projectDir |-> NoDir]
    /\ windowWrites' = IF pendingSave THEN windowWrites + 1 ELSE windowWrites
    /\ flushed' = IF pendingSave /\ written THEN sessions ELSE flushed
    /\ UNCHANGED <<allowedChatIds, rateLimits, sessions, calls, burst, lost>>
    /\ UNCHANGED <<queueVars, shortcutVars, callerVars, lockVars>>

\* the process ends without running its timers and is started again: the
\* constructor of a new SessionManager on the same data file
Restart ==
    /\ sessions' = Load(dataFile)
    /\ saveTimer' = FALSE
    /\ saveTimers' = 0
    /\ pendingSave' = FALSE
    /\ lastCall' = [op |-> "restart", chat |-> "none", projectDir |-> NoDir]
    /\ burst' = 0
    /\ windowWrites' = 0
    /\ lost' = (sessions # Load(dataFile))
    /\ UNCHANGED <<allowedChatIds, rateLimits, dataFile, calls, flushed>>
    /\ UNCHANGED <<queueVars, shortcutVars, callerVars, lockVars>>

(* ------------------------------------------------------------------ *)
(* ShortcutsManager                                                    *)
(* ------------------------------------------------------------------ *)
\* A string argument is the sequence of its characters; a command is the
\* sequence of the words and blanks it is made of, each standing for its
\* characters.  An argument can also be something that is no string.
Str(chars) == [isString |-> TRUE, chars |-> chars]

NotAString == [isString |-> FALSE, chars |-> <<>>]

\* String.prototype.repeat
Rep(ch, n) == [i \in 1..n |-> ch]

\* the characters the class [a-z0-9_] accepts
WordChars ==
    {"a", "b", "c", "d", "e", "f", "g", "h", "i", "j", "k", "l", "m",
     "n", "o", "p", "q", "r", "s", "t", "u", "v", "w", "x", "y", "z",
     "0", "1", "2", "3", "4", "5", "6", "7", "8", "9", "_"}

\* the upper-case letters and words of the model, with their lower case
UpperToLower ==
    ("A" :> "a") @@ ("B" :> "b") @@ ("C" :> "c") @@ ("D" :> "d") @@ ("E" :> "e") @@ ("F" :> "f")
    @@ ("G" :> "g") @@ ("H" :> "h") @@ ("I" :> "i") @@ ("J" :> "j") @@ ("K" :> "k") @@ ("L" :> "l")
    @@ ("M" :> "m") @@ ("N" :> "n") @@ ("O" :> "o") @@ ("P" :> "p") @@ ("Q" :> "q") @@ ("R" :> "r")
    @@ ("S" :> "s") @@ ("T" :> "t") @@ ("U" :> "u") @@ ("V" :> "v") @@ ("W" :> "w") @@ ("X" :> "x")
    @@ ("Y" :> "y") @@ ("Z" :> "z")
    @@ ("RM" :> "rm") @@ ("CURL" :> "curl")

LowerCase(ch) == IF ch \in DOMAIN UpperToLower THEN UpperToLower[ch] ELSE ch

\* String.prototype.toLowerCase
ToLowerCase(str) == [i \in 1..Len(str) |-> LowerCase(str[i])]

\* what \s matches and trim() removes
WhiteSpace == {" ", "\t", "\n"}

RECURSIVE TrimStart(_)
TrimStart(str) ==
    IF str = <<>> \/ Head(str) \notin WhiteSpace THEN str ELSE TrimStart(Tail(str))

RECURSIVE TrimEnd(_)
TrimEnd(str) ==
    IF str = <<>> \/ str[Len(str)] \notin WhiteSpace THEN str
    ELSE TrimEnd(SubSeq(str, 1, Len(str) - 1))

\* String.prototype.trim
Trim(str) == TrimEnd(TrimStart(str))

\* the number of characters of each word of a command
WordLength ==
    (" " :> 1) @@ ("\t" :> 1) @@ ("\n" :> 1) @@ ("x" :> 1) @@ ("y" :> 1)
    @@ ("x*999" :> 999)
    @@ ("rm" :> 2) @@ ("RM" :> 2) @@ ("-rf" :> 3) @@ ("del" :> 3) @@ ("/s" :> 2)
    @@ ("format" :> 6) @@ ("c:" :> 2) @@ ("mkfs" :> 4) @@ ("dd" :> 2)
    @@ ("if=" :> 3) @@ (">" :> 1) @@ ("/dev/sd" :> 7) @@ ("chmod" :> 5)
    @@ ("777" :> 3) @@ ("curl" :> 4) @@ ("CURL" :> 4) @@ ("wget" :> 4)
    @@ ("|" :> 1) @@ ("sh" :> 2)
    @@ ("$" :> 1) @@ ("&" :> 1) @@ ("0" :> 1) @@ ("1" :> 1) @@ ("2" :> 1)
    @@ ("/" :> 1) @@ ("a" :> 1) @@ ("b" :> 1)

\* String.prototype.length of a command
RECURSIVE StringLength(_)
StringLength(str) ==
    IF str = <<>> THEN 0 ELSE WordLength[Head(str)] + StringLength(Tail(str))

\* the reserved names of validateName
ReservedNames ==
    {<<"h", "e", "l", "p">>,
     <<"s", "t", "a", "r", "t">>,
     <<"n", "e", "w">>,
     <<"s", "t", "a", "t", "u", "s">>,
     <<"p", "r", "o", "j", "e", "c", "t">>,
     <<"c", "a", "n", "c", "e", "l">>,
     <<"q", "u", "e", "u", "e">>,
     <<"s", "e", "s", "s", "i", "o", "n", "s">>,
     <<"r", "e", "s", "u", "m", "e">>,
     <<"p", "r", "o", "j", "e", "c", "t", "s">>,
     <<"s", "h", "o", "r", "t", "c", "u", "t", "s">>,
     <<"e", "x", "p", "o", "r", "t">>}

NoName == <<>>

\* the test `!name || typeof name !== 'string'`
NameRequired(name) == ~name.isString \/ name.chars = <<>>

\* faulty variant: no limit on the length of a name
NameTooLong_Never(trimmed) == FALSE

\* the test `trimmed.length > MAX_SHORTCUT_NAME_LENGTH`
NameTooLong(trimmed) == Len(trimmed) > MAX_SHORTCUT_NAME_LENGTH

\* /^[a-z0-9_]+$/.test(trimmed)
NameWellFormed(trimmed) ==
    /\ Len(trimmed) >= 1
    /\ \A i \in 1..Len(trimmed) : trimmed[i] \in WordChars

\* validateName(name)
ValidateName(name) ==
    IF NameRequired(name)
    THEN [valid |-> FALSE, error |-> "Shortcut name is required", name |-> NoName]
    ELSE LET trimmed == ToLowerCase(Trim(name.chars))
         IN IF NameTooLong(trimmed)
            THEN [valid |-> FALSE, error |-> "Name too long (max 20 chars)", name |-> NoName]
            ELSE IF ~NameWellFormed(trimmed)
            THEN [valid |-> FALSE,
                  error |-> "Name can only contain letters, numbers, and underscores",
                  name |-> NoName]
            ELSE IF trimmed \in ReservedNames
            THEN [valid |-> FALSE, error |-> "is a reserved command name",
                  name |-> NoName]
            ELSE [valid |-> TRUE, error |-> "none", name |-> trimmed]

\* a pattern a\s+b (min = 1) or a\s*b (min = 0) with the flag i, searched
\* anywhere in the command
SpacedPair(str, a, b, min) ==
    \E i \in 1..Len(str), j \in 1..Len(str) :
        /\ i < j
        /\ LowerCase(str[i]) = a
        /\ LowerCase(str[j]) = b
        /\ j - i - 1 >= min
        /\ \A k \in (i + 1)..(j - 1) : str[k] \in WhiteSpace

\* a pattern that is one word
Contains(str, a) == \E i \in 1..Len(str) : LowerCase(str[i]) = a

\* a pattern a.*b.*c, where . matches no line break
PipedTo(str, a, b, c) ==
    \E i \in 1..Len(str), j \in 1..Len(str), k \in 1..Len(str) :
        /\ i < j /\ j < k
        /\ LowerCase(str[i]) = a
        /\ LowerCase(str[j]) = b
        /\ LowerCase(str[k]) = c
        /\ \A m \in i..k : str[m] # "\n"

\* BLOCKED_PATTERNS: some pattern matches the command
BlockedPattern(str) ==
    \/ SpacedPair(str, "rm", "-rf", 1)
    \/ \E flag \in {"/s", "/f", "/q"} : SpacedPair(str, "del", flag, 1)
    \/ \E drive \in {"c:"} : SpacedPair(str, "format", drive, 1)
    \/ Contains(str, "mkfs")
    \/ SpacedPair(str, "dd", "if=", 1)
    \/ SpacedPair(str, ">", "/dev/sd", 0)
    \/ SpacedPair(str, "chmod", "777", 1)
    \/ PipedTo(str, "curl", "|", "sh")
    \/ PipedTo(str, "wget", "|", "sh")

\* the test `!command || typeof command !== 'string'`
CommandRequired(command) == ~command.isString \/ command.chars = <<>>

\* the test `trimmed.length > MAX_SHORTCUT_CONTENT_LENGTH`
CommandTooLong(trimmed) == StringLength(trimmed) > MAX_SHORTCUT_CONTENT_LENGTH

\* validateCommand(command)
ValidateCommand(command) ==
    IF CommandRequired(command)
    THEN [valid |-> FALSE, error |-> "Command content is required", command |-> <<>>]
    ELSE LET trimmed == Trim(command.chars)
         IN IF CommandTooLong(trimmed)
            THEN [valid |-> FALSE, error |-> "Command too long (max 1000 chars)", command |-> <<>>]
            ELSE IF BlockedPattern(trimmed)
            THEN [valid |-> FALSE,
                  error |-> "Command contains blocked dangerous pattern",
                  command |-> <<>>]
            ELSE [valid |-> TRUE, error |-> "none", command |-> trimmed]

\* the object of a chat in this.shortcuts: absent, or its own keys (the
\* names) with their records; updatedAt is not modelled
EmptyOwn == [name \in {} |-> 0]

NoShortcuts == [exists |-> FALSE, own |-> EmptyOwn]

\* the values of new Date().toISOString() at the calls
Times == {"t1", "t2"}

\* the values of getShortcut and expandShortcut: null, undefined, or a string
NullValue == [kind |-> "null", chars |-> <<>>]

UndefinedValue == [kind |-> "undefined", chars |-> <<>>]

StringValue(chars) == [kind |-> "string", chars |-> chars]

NoExpansion == [op |-> "none", chat |-> "none", message |-> <<>>, value |-> NullValue]

NoShortcutRet ==
    [op |-> "none", success |-> FALSE, name |-> NoName, isUpdate |-> FALSE,
     error |-> "none"]

\* the lower-case names every object inherits from Object.prototype
ConstructorName == <<"c", "o", "n", "s", "t", "r", "u", "c", "t", "o", "r">>

ProtoName == <<"_", "_", "p", "r", "o", "t", "o", "_", "_">>

InheritedNames == {ConstructorName, ProtoName}

\* obj.hasOwnProperty(name)
HasOwnProperty(obj, name) == name \in DOMAIN obj.own

\* obj[name] is truthy: an own record, or a property found on the prototype
HasProperty(obj, name) == HasOwnProperty(obj, name) \/ name \in InheritedNames

\* obj[name] = record: an own key is created or replaced, except that the
\* name __proto__ sets the prototype of obj and creates no key
AssignProperty(own, name, record) ==
    IF name = ProtoName THEN own
    ELSE [n \in DOMAIN own \cup {name} |-> IF n = name THEN record ELSE own[n]]

\* delete obj[name]
DeleteProperty(own, name) == [n \in DOMAIN own \ {name} |-> own[n]]

\* Object.keys(obj).length
KeyCount(obj) == Cardinality(DOMAIN obj.own)

\* JSON.stringify(this.shortcuts): the keys that are present, each with its
\* own keys
StringifyShortcuts(store) ==
    [c \in {k \in DOMAIN store : store[k].exists} |-> store[c].own]

\* faulty variant: the cap test off by one (> instead of >=)
CapReached_OffByOne(isUpdate, currentCount) ==
    ~isUpdate /\ currentCount > MAX_SHORTCUTS_PER_USER

\* the test `!isUpdate && currentCount >= MAX_SHORTCUTS_PER_USER`
CapReached(isUpdate, currentCount) ==
    ~isUpdate /\ currentCount >= MAX_SHORTCUTS_PER_USER

\* save() of the ShortcutsManager: the write goes through, or throws and
\* is caught
SaveShortcuts(store, written) ==
    shortcutsFile' = IF written THEN StringifyShortcuts(store) ELSE shortcutsFile

\* a call that returns an error without changing anything
ShortcutError(op, error) ==
    /\ sret' = [op |-> op, success |-> FALSE, name |-> NoName, isUpdate |-> FALSE,
                error |-> error]
    /\ UNCHANGED <<shortcuts, shortcutsFile>>

\* setShortcut(platform, chatId, name, command), called at time `now`: what it
\* does to the store, to the file and to its return value
SetShortcutBody(c, name, command, now, written) ==
    LET nameValidation == ValidateName(name)
        commandValidation == ValidateCommand(command)
        obj == shortcuts[c]
        isUpdate == HasOwnProperty(obj, nameValidation.name)
    IN IF ~nameValidation.valid
       THEN ShortcutError("setShortcut", nameValidation.error)
       ELSE IF ~commandValidation.valid
       THEN ShortcutError("setShortcut", commandValidation.error)
       ELSE IF CapReached(isUpdate, KeyCount(obj))
       THEN /\ shortcuts' = [shortcuts EXCEPT ![c].exists = TRUE]
            /\ sret' = [op |-> "setShortcut", success |-> FALSE, name |-> NoName,
                        isUpdate |-> FALSE, error |-> "Maximum shortcuts reached (20)"]
            /\ UNCHANGED shortcutsFile
       ELSE LET record == [command |-> commandValidation.command,
                           createdAt |-> IF isUpdate
                                         THEN obj.own[nameValidation.name].createdAt
                                         ELSE now]
                store == [shortcuts EXCEPT ![c] =
                            [exists |-> TRUE,
                             own |-> AssignProperty(obj.own, nameValidation.name,
                                                    record)]]
            IN /\ shortcuts' = store
               /\ SaveShortcuts(store, written)
               /\ sret' = [op |-> "setShortcut", success |-> TRUE,
                           name |-> nameValidation.name, isUpdate |-> isUpdate,
                           error |-> "none"]

\* a call of setShortcut outside a message handler
SetShortcut(c, name, command, now, written) ==
    /\ UNCHANGED <<queueVars, callerVars, lockVars>>
    /\ UNCHANGED <<allowedChatIds, rateLimits, sessions, saveTimer, saveTimers,
                   pendingSave, dataFile, calls, histVars>>
    /\ expanded' = NoExpansion
    /\ SetShortcutBody(c, name, command, now, written)

\* deleteShortcut(platform, chatId, name), name a string: what it does to the
\* store, to the file and to its return value
DeleteShortcutBody(c, name, written) ==
    IF ~shortcuts[c].exists
    THEN ShortcutError("deleteShortcut", "Shortcut not found")
    ELSE LET normalizedName == ToLowerCase(name.chars)
         IN IF ~HasProperty(shortcuts[c], normalizedName)
            THEN ShortcutError("deleteShortcut", "Shortcut not found")
            ELSE LET store == [shortcuts EXCEPT ![c].own =
                                  DeleteProperty(@, normalizedName)]
                 IN /\ shortcuts' = store
                    /\ SaveShortcuts(store, written)
                    /\ sret' = [op |-> "deleteShortcut", success |-> TRUE,
                                name |-> NoName, isUpdate |-> FALSE,
                                error |-> "none"]

\* a call of deleteShortcut outside a message handler
DeleteShortcut(c, name, written) ==
    /\ UNCHANGED <<queueVars, callerVars, lockVars>>
    /\ UNCHANGED <<allowedChatIds, rateLimits, sessions, saveTimer, saveTimers,
                   pendingSave, dataFile, calls, histVars>>
    /\ expanded' = NoExpansion
    /\ DeleteShortcutBody(c, name, written)

\* getShortcut(platform, chatId, name): the command of an own record; a name
\* found on the prototype gives an object without a command; the prototype
\* is the one every object starts with
GetShortcut(store, c, name) ==
    LET obj == store[c]
        key == ToLowerCase(name)
    IN IF HasOwnProperty(obj, key) THEN StringValue(obj.own[key].command)
       ELSE IF key \in InheritedNames THEN UndefinedValue
       ELSE NullValue

\* faulty variant: every message is taken to start with the prefix
StartsWithSlash_Always(message) == TRUE

\* message.startsWith('/')
StartsWithSlash(message) == message # <<>> /\ Head(message) = "/"

\* the characters of str before its first white space
RECURSIVE UpToWhiteSpace(_)
UpToWhiteSpace(str) ==
    IF str = <<>> \/ Head(str) \in WhiteSpace THEN <<>>
    ELSE <<Head(str)>> \o UpToWhiteSpace(Tail(str))

\* str.split(/\s+/): the pieces between the runs of white space, empty
\* pieces at both ends included
RECURSIVE Split(_)
Split(str) ==
    LET piece == UpToWhiteSpace(str)
        rest == SubSeq(str, Len(piece) + 1, Len(str))
    IN IF rest = <<>> THEN <<piece>>
       ELSE <<piece>> \o Split(TrimStart(rest))

DigitChars == {"0", "1", "2", "3", "4", "5", "6", "7", "8", "9"}

DigitOf == <<"0", "1", "2", "3", "4", "5", "6", "7", "8", "9">>

\* the decimal digits of i, as the template literal `${i}` writes them
RECURSIVE Digits(_)
Digits(i) ==
    IF i < 10 THEN <<DigitOf[i + 1]>>
    ELSE Digits(i \div 10) \o <<DigitOf[(i % 10) + 1]>>

\* what String.prototype.replace inserts for a replacement string: $$ is a
\* dollar sign, $& the matched text, every other character itself (the
\* pattern has no group, and the inputs hold no quote or backquote)
RECURSIVE GetSubstitution(_, _)
GetSubstitution(matched, replacement) ==
    IF replacement = <<>> THEN <<>>
    ELSE IF Len(replacement) >= 2 /\ replacement[1] = "$" /\ replacement[2] = "$"
    THEN <<"$">> \o GetSubstitution(matched, SubSeq(replacement, 3, Len(replacement)))
    ELSE IF Len(replacement) >= 2 /\ replacement[1] = "$" /\ replacement[2] = "&"
    THEN matched \o GetSubstitution(matched, SubSeq(replacement, 3, Len(replacement)))
    ELSE <<Head(replacement)>> \o GetSubstitution(matched, Tail(replacement))

\* str.replace(new RegExp(pattern, 'g'), replacement) for a pattern that is
\* literal text: every occurrence, from left to right
RECURSIVE ReplaceAll(_, _, _)
ReplaceAll(str, pattern, replacement) ==
    IF str = <<>> THEN <<>>
    ELSE IF Len(str) >= Len(pattern) /\ SubSeq(str, 1, Len(pattern)) = pattern
    THEN GetSubstitution(pattern, replacement)
         \o ReplaceAll(SubSeq(str, Len(pattern) + 1, Len(str)), pattern, replacement)
    ELSE <<Head(str)>> \o ReplaceAll(Tail(str), pattern, replacement)

\* the loop `for (let i = 1; i < parts.length; i++)` of expandShortcut, from
\* the i-th part on (parts[i] of the code is parts[i + 1] here)
RECURSIVE SubstituteArguments(_, _, _)
SubstituteArguments(str, parts, i) ==
    IF i >= Len(parts) THEN str
    ELSE SubstituteArguments(ReplaceAll(str, <<"$">> \o Digits(i), parts[i + 1]),
                             parts, i + 1)

RECURSIVE DropDigits(_)
DropDigits(str) ==
    IF str = <<>> \/ Head(str) \notin DigitChars THEN str ELSE DropDigits(Tail(str))

\* str.replace(/\$\d+/g, '')
RECURSIVE StripPlaceholders(_)
StripPlaceholders(str) ==
    IF str = <<>> THEN <<>>
    ELSE IF Len(str) >= 2 /\ str[1] = "$" /\ str[2] \in DigitChars
    THEN StripPlaceholders(DropDigits(Tail(str)))
    ELSE <<Head(str)>> \o StripPlaceholders(Tail(str))

\* the test `!command`: null, undefined or the empty string
CommandMissing(command) == command.kind # "string" \/ command.chars = <<>>

\* message.substring(1)
Substring1(message) == IF message = <<>> THEN <<>> ELSE Tail(message)

\* the value of expandShortcut(platform, chatId, message)
ExpandShortcut(store, c, message) ==
    IF ~StartsWithSlash(message) THEN NullValue
    ELSE LET parts == Split(Substring1(message))
             command == GetShortcut(store, c, parts[1])
         IN IF CommandMissing(command) THEN NullValue
            ELSE StringValue(Trim(StripPlaceholders(
                     SubstituteArguments(command.chars, parts, 1))))

\* a call of expandShortcut
Expand(c, message) ==
    /\ expanded' = [op |-> "expand", chat |-> c, message |-> message,
                    value |-> ExpandShortcut(shortcuts, c, message)]
    /\ UNCHANGED <<shortcuts, shortcutsFile, sret>>
    /\ UNCHANGED <<queueVars, callerVars, lockVars>>
    /\ UNCHANGED <<allowedChatIds, rateLimits, sessions, saveTimer, saveTimers,
                   pendingSave, dataFile, calls, histVars>>

(* ------------------------------------------------------------------ *)
(* The adapter (TelegramClaudeBot; FeishuClaudeBot has the same flow)   *)
(* ------------------------------------------------------------------ *)
\* faulty variant: without a whitelist everybody is let in
IsAllowed_OpenWithoutWhitelist(c) ==
    IF allowedChatIds = {} THEN TRUE ELSE c \in allowedChatIds

\* isAllowed(chatId)
IsAllowed(c) ==
    IF allowedChatIds = {}
    THEN ~RequireAuth
    ELSE c \in allowedChatIds

\* the unfinished callClaude invocations of a chat whose subprocess runs
Running(c) == {call \in DOMAIN calls : call.chat = c /\ call.state = "running"}

InFlight(c) ==
    LET S == Running(c)
        Sum[T \in SUBSET S] ==
            IF T = {} THEN 0
            ELSE LET x == CHOOSE y \in T : TRUE IN calls[x] + Sum[T \ {x}]
    IN Sum[S]

Unfinished == BagCardinality(calls)

\* handleMessage up to its first await, for a text of `len` characters:
\* authentication, rate limit, length, the session read
HandleMessage(c, len) ==
    /\ UNCHANGED <<queueVars, histVars, callerVars, lockVars>>
    /\ UNCHANGED <<allowedChatIds, sessions, saveTimer, saveTimers, pendingSave, dataFile>>
    /\ IF len = 0 \/ ~IsAllowed(c) \/ rateLimits[c] >= RATE_LIMIT_MAX
       THEN UNCHANGED <<rateLimits, calls>>
       ELSE /\ rateLimits' = [rateLimits EXCEPT ![c] = @ + 1]
            /\ IF len > MAX_MESSAGE_LENGTH
               THEN UNCHANGED calls
               ELSE calls' = calls (+) SetToBag({
                       [chat |-> c,
                        projectDir |-> IF sessions[c].projectDir # NoDir
                                       THEN sessions[c].projectDir
                                       ELSE DefaultProjectDir,
                        sessionId |-> sessions[c].sessionId,
                        state |-> "awaiting"]})

\* the 'message' event for a text that does not start with '/'
TgOnMessage(c, len) ==
    /\ HandleMessage(c, len)
    /\ UNCHANGED shortcutVars

\* the 'message' event for a text that starts with '/' and names no command
\* of the bot: the text is expanded first, and handleMessage gets the
\* expansion if there is one and the text itself otherwise
TgOnSlashMessage(c, message) ==
    LET value == ExpandShortcut(shortcuts, c, message)
        text == IF value.kind = "string" /\ value.chars # <<>>
                THEN value.chars ELSE message
    IN /\ expanded' = [op |-> "expand", chat |-> c, message |-> message,
                       value |-> value]
       /\ UNCHANGED <<shortcuts, shortcutsFile, sret>>
       /\ HandleMessage(c, StringLength(text))

\* the rate-limit window of a chat closes (now > resetTime)
RateWindowElapses(c) ==
    /\ rateLimits[c] > 0
    /\ rateLimits' = [rateLimits EXCEPT ![c] = 0]
    /\ UNCHANGED <<allowedChatIds, sessions, saveTimer, saveTimers, pendingSave, dataFile, calls>>
    /\ UNCHANGED <<queueVars, histVars, shortcutVars, callerVars, lockVars>>

\* handleMessage resumes after 'Processing...' is sent and calls callClaude,
\* which spawns the assistant subprocess
CallClaudeSpawn(call) ==
    /\ call.state = "awaiting"
    /\ calls' = (calls (-) SetToBag({call}))
                   (+) SetToBag({[call EXCEPT !.state = "running"]})
    /\ UNCHANGED <<allowedChatIds, rateLimits, sessions, saveTimer, saveTimers, pendingSave, dataFile>>
    /\ UNCHANGED <<queueVars, histVars, shortcutVars, callerVars, lockVars>>

\* faulty variant: every failed call that sent a session id drops it
SessionInvalidated_AnyFailure(call, result) ==
    ~result.success /\ call.sessionId # NullSid

\* the test `result.invalidSession && sessionId`
SessionInvalidated(call, result) ==
    result.invalidSession /\ call.sessionId # NullSid

\* what handleMessage does with the result of callClaude
ApplyResult(call, result) ==
    IF result.success /\ result.sessionId # NullSid
    THEN /\ sessions' = UpdateSessionId(sessions, call.chat, result.sessionId,
                                        call.projectDir)
         /\ Save
    ELSE IF SessionInvalidated(call, result)
    THEN /\ sessions' = ClearSession(sessions, call.chat)
         /\ Save
    ELSE UNCHANGED <<sessions, saveTimer, saveTimers, pendingSave>>

\* the subprocess closes before the timeout: callClaude resolves and
\* handleMessage applies the result
CallCloses(call, outcome) ==
    /\ call.state = "running"
    /\ calls' = calls (-) SetToBag({call})
    /\ ApplyResult(call, outcome)
    /\ UNCHANGED <<allowedChatIds, rateLimits, dataFile>>
    /\ UNCHANGED <<queueVars, histVars, shortcutVars, callerVars, lockVars>>

\* the timeout of callClaude fires: SIGTERM, and the timeout result
CallTimesOut(call) ==
    /\ call.state = "running"
    /\ calls' = (calls (-) SetToBag({call}))
                   (+) SetToBag({[call EXCEPT !.state = "timedout"]})
    /\ ApplyResult(call, FailureResult)
    /\ UNCHANGED <<allowedChatIds, rateLimits, dataFile>>
    /\ UNCHANGED <<queueVars, histVars, shortcutVars, callerVars, lockVars>>

\* the subprocess of a timed-out call closes: resolve has no effect any more
TimedOutCloses(call) ==
    /\ call.state = "timedout"
    /\ calls' = calls (-) SetToBag({call})
    /\ UNCHANGED <<allowedChatIds, rateLimits, sessions, saveTimer, saveTimers, pendingSave, dataFile>>
    /\ UNCHANGED <<queueVars, histVars, shortcutVars, callerVars, lockVars>>

\* the subprocess could not be started: the 'error' event
CallSpawnError(call) ==
    /\ call.state = "running"
    /\ calls' = calls (-) SetToBag({call})
    /\ ApplyResult(call, FailureResult)
    /\ UNCHANGED <<allowedChatIds, rateLimits, dataFile>>
    /\ UNCHANGED <<queueVars, histVars, shortcutVars, callerVars, lockVars>>

\* /new
HandleNew(c) ==
    /\ IF IsAllowed(c)
       THEN sessions' = ClearSession(sessions, c) /\ Save
       ELSE UNCHANGED <<sessions, saveTimer, saveTimers, pendingSave>>
    /\ UNCHANGED <<allowedChatIds, rateLimits, dataFile, calls>>
    /\ UNCHANGED <<queueVars, histVars, shortcutVars, callerVars, lockVars>>

\* /cancel
HandleCancel(c) ==
    IF IsAllowed(c) THEN CancelCurrent(c) ELSE UNCHANGED vars

\* /queue clear
HandleQueueClear(c) ==
    IF IsAllowed(c) THEN ClearQueue(c) ELSE UNCHANGED vars

\* /project <path>, for a path that validateProjectPath lets through
HandleProject(c, projectDir) ==
    /\ IF IsAllowed(c)
       THEN sessions' = SetProjectDir(sessions, c, projectDir) /\ Save
       ELSE UNCHANGED <<sessions, saveTimer, saveTimers, pendingSave>>
    /\ UNCHANGED <<allowedChatIds, rateLimits, dataFile, calls>>
    /\ UNCHANGED <<queueVars, histVars, shortcutVars, callerVars, lockVars>>

\* /resume <session_id>, for a session that findSessionById finds
HandleResume(c, sessionId, cwd) ==
    /\ IF IsAllowed(c)
       THEN sessions' = UpdateSessionId(sessions, c, sessionId, cwd) /\ Save
       ELSE UNCHANGED <<sessions, saveTimer, saveTimers, pendingSave>>
    /\ UNCHANGED <<allowedChatIds, rateLimits, dataFile, calls>>
    /\ UNCHANGED <<queueVars, histVars, shortcutVars, callerVars, lockVars>>

\* /shortcut add <name> <command>
HandleShortcutAdd(c, name, command, now, written) ==
    IF IsAllowed(c) THEN SetShortcut(c, name, command, now, written)
    ELSE UNCHANGED vars

\* /shortcut del <name>
HandleShortcutDel(c, name, written) ==
    IF IsAllowed(c) THEN DeleteShortcut(c, name, written)
    ELSE UNCHANGED vars

\* Array.prototype.join(' ') of words
RECURSIVE JoinWords(_)
JoinWords(words) ==
    IF words = <<>> THEN <<>>
    ELSE IF Len(words) = 1 THEN words[1]
    ELSE words[1] \o <<" ">> \o JoinWords(Tail(words))

\* FeishuClaudeBot.handleChatMessage up to its first await: the session read
HandleChatMessage(c) ==
    calls' = calls (+) SetToBag({
                [chat |-> c,
                 projectDir |-> IF sessions[c].projectDir # NoDir
                                THEN sessions[c].projectDir
                                ELSE DefaultProjectDir,
                 sessionId |-> sessions[c].sessionId,
                 state |-> "awaiting"]})

\* FeishuClaudeBot.handleShortcutCommand(chatId, args)
HandleShortcutCommand(c, args, now, written) ==
    LET subCmd == IF args = <<>> THEN <<>> ELSE ToLowerCase(args[1])
    IN IF subCmd = <<"a", "d", "d">> /\ Len(args) >= 3
       THEN SetShortcutBody(c, Str(args[2]), Str(JoinWords(SubSeq(args, 3, Len(args)))),
                            now, written)
       ELSE IF /\ subCmd \in {<<"d", "e", "l">>, <<"d", "e", "l", "e", "t", "e">>,
                               <<"r", "m">>}
               /\ Len(args) >= 2
       THEN DeleteShortcutBody(c, Str(args[2]), written)
       ELSE UNCHANGED <<shortcuts, shortcutsFile, sret>>

\* the commands of FeishuClaudeBot.handleCommand that are sent here: /new and
\* /shortcut change a store, /start, /status, /help and an unknown command
\* only answer
HandleCommand(c, text, now, written) ==
    LET parts == Split(text)
        command == ToLowerCase(parts[1])
        args == Tail(parts)
    IN IF command = <<"/", "n", "e", "w">>
       THEN /\ sessions' = ClearSession(sessions, c)
            /\ Save
            /\ UNCHANGED <<shortcuts, shortcutsFile, sret>>
       ELSE IF command = <<"/", "s", "h", "o", "r", "t", "c", "u", "t">>
       THEN /\ HandleShortcutCommand(c, args, now, written)
            /\ UNCHANGED <<sessions, saveTimer, saveTimers, pendingSave>>
       ELSE UNCHANGED <<shortcuts, shortcutsFile, sret,
                        sessions, saveTimer, saveTimers, pendingSave>>

\* FeishuClaudeBot.handleMessage for a text message of the sender and chat c:
\* authentication, rate limit, length; a text that starts with '/' is
\* expanded first and dispatched as a command only if nothing is expanded
FsHandleMessage(c, message, now, written) ==
    LET text == Trim(message)
        value == ExpandShortcut(shortcuts, c, text)
    IN /\ UNCHANGED <<queueVars, histVars, callerVars, lockVars>>
       /\ UNCHANGED <<allowedChatIds, dataFile>>
       /\ IF ~IsAllowed(c) \/ rateLimits[c] >= RATE_LIMIT_MAX
          THEN UNCHANGED <<rateLimits, sessions, saveTimer, saveTimers, pendingSave,
                           calls, shortcutVars>>
          ELSE /\ rateLimits' = [rateLimits EXCEPT ![c] = @ + 1]
               /\ IF text = <<>> \/ Len(text) > MAX_MESSAGE_LENGTH
                  THEN UNCHANGED <<sessions, saveTimer, saveTimers, pendingSave,
                                   calls, shortcutVars>>
                  ELSE IF ~StartsWithSlash(text)
                  THEN /\ HandleChatMessage(c)
                       /\ UNCHANGED <<sessions, saveTimer, saveTimers, pendingSave,
                                      shortcutVars>>
                  ELSE /\ expanded' = [op |-> "expand", chat |-> c, message |-> text,
                                       value |-> value]
                       /\ IF value.kind = "string" /\ value.chars # <<>>
                          THEN /\ HandleChatMessage(c)
                               /\ UNCHANGED <<sessions, saveTimer, saveTimers,
                                              pendingSave, shortcuts, shortcutsFile,
                                              sret>>
                          ELSE /\ HandleCommand(c, text, now, written)
                               /\ UNCHANGED calls

(* ------------------------------------------------------------------ *)
(* SessionManager._doSave, file-system call by file-system call         *)
(* ------------------------------------------------------------------ *)
\* the OS processes that share one sessions.json; the second one may die
OsProcs == {"p1", "p2"}

MortalProcs == {"p2"}

NoLock == [exists |-> FALSE, pid |-> "none", age |-> 0]

\* a process outside _doSave
Idle == [pc |-> "idle", waited |-> 0]

\* the time since an instant, after TimeStep more milliseconds; what is above
\* `limit` already stays as it is, no test of the code tells it apart
Later(elapsed, limit) == IF elapsed > limit THEN elapsed ELSE elapsed + TimeStep

\* TimeStep milliseconds pass for the lock file and for the waiting processes
Elapse(lock, who) ==
    /\ lockFile' = IF lock.exists
                   THEN [lock EXCEPT !.age = Later(@, LOCK_STALE_MS)]
                   ELSE lock
    /\ savers' = [p \in OsProcs |->
                    IF who[p].pc \in {"existsSync", "statSync", "unlinkStale",
                                      "waitCheck", "spin"}
                    THEN [who[p] EXCEPT !.waited = Later(@, MAX_WAIT_MS)]
                    ELSE who[p]]

\* time passes between two file-system calls
Tick ==
    /\ Elapse(lockFile, savers)
    /\ \/ lockFile' # lockFile
       \/ savers' # savers
    /\ UNCHANGED <<queueVars, allowedChatIds, rateLimits, sessions, saveTimer,
                   saveTimers, pendingSave, dataFile, calls, histVars,
                   shortcutVars, callerVars>>

\* faulty variant: a lock file is never taken for abandoned
LockIsStale_Never(lock) == FALSE

\* Date.now() - stat.mtimeMs > 10000
LockIsStale(lock) == lock.age > LOCK_STALE_MS

\* faulty variant: the wait is never given up
WaitedTooLong_Never(saver) == FALSE

\* Date.now() - start > maxWait
WaitedTooLong(saver) == saver.waited > MAX_WAIT_MS

\* what a step of _doSave leaves alone
SaverFrame ==
    UNCHANGED <<queueVars, allowedChatIds, rateLimits, sessions, saveTimer,
                saveTimers, pendingSave, calls, histVars, shortcutVars, callerVars>>

GoTo(p, pc) == savers' = [savers EXCEPT ![p].pc = pc]

\* _doSave is entered and acquireLock takes `start`
DoSave(p) ==
    /\ savers[p].pc = "idle"
    /\ savers' = [savers EXCEPT ![p] = [pc |-> "existsSync", waited |-> 0]]
    /\ UNCHANGED <<lockFile, dataFile>>
    /\ SaverFrame

\* the loop condition fs.existsSync(this.lockFile)
ExistsSync(p) ==
    /\ savers[p].pc = "existsSync"
    /\ GoTo(p, IF lockFile.exists THEN "statSync" ELSE "writeLock")
    /\ UNCHANGED <<lockFile, dataFile>>
    /\ SaverFrame

\* fs.statSync and the age test; a lock file that is gone makes statSync
\* throw, and the catch leaves the loop
StatSync(p) ==
    /\ savers[p].pc = "statSync"
    /\ GoTo(p, IF ~lockFile.exists THEN "writeLock"
               ELSE IF LockIsStale(lockFile) THEN "unlinkStale"
               ELSE "waitCheck")
    /\ UNCHANGED <<lockFile, dataFile>>
    /\ SaverFrame

\* fs.unlinkSync of the lock file found stale, and the break; it throws
\* into the catch, which breaks too, when the file is gone
UnlinkStale(p) ==
    /\ savers[p].pc = "unlinkStale"
    /\ lockFile' = NoLock
    /\ GoTo(p, "writeLock")
    /\ UNCHANGED dataFile
    /\ SaverFrame

\* the test of maxWait, with the forced unlinkSync and the break
WaitCheck(p) ==
    /\ savers[p].pc = "waitCheck"
    /\ IF WaitedTooLong(savers[p])
       THEN lockFile' = NoLock /\ GoTo(p, "writeLock")
       ELSE UNCHANGED lockFile /\ GoTo(p, "spin")
    /\ UNCHANGED dataFile
    /\ SaverFrame

\* the busy wait of 50 ms, taken as one TimeStep
Spin(p) ==
    /\ savers[p].pc = "spin"
    /\ Elapse(lockFile, [savers EXCEPT ![p].pc = "existsSync"])
    /\ UNCHANGED dataFile
    /\ SaverFrame

\* fs.writeFileSync(this.lockFile, pid): acquireLock returns
WriteLock(p) ==
    /\ savers[p].pc = "writeLock"
    /\ lockFile' = [exists |-> TRUE, pid |-> p, age |-> 0]
    /\ GoTo(p, "writeData")
    /\ UNCHANGED dataFile
    /\ SaverFrame

\* fs.writeFileSync(this.dataFile, ...), which goes through or throws
WriteData(p, written) ==
    /\ savers[p].pc = "writeData"
    /\ dataFile' = IF written THEN Stringify(sessions) ELSE dataFile
    /\ GoTo(p, "releaseLock")
    /\ UNCHANGED lockFile
    /\ SaverFrame

\* releaseLock in the finally: unlinkSync of the lock file, errors ignored
ReleaseLock(p) ==
    /\ savers[p].pc = "releaseLock"
    /\ lockFile' = NoLock
    /\ GoTo(p, "idle")
    /\ UNCHANGED dataFile
    /\ SaverFrame

\* the process dies between acquireLock and releaseLock
Dies(p) ==
    /\ savers[p].pc \in {"writeData", "releaseLock"}
    /\ GoTo(p, "dead")
    /\ UNCHANGED <<lockFile, dataFile>>
    /\ SaverFrame

\* the next file-system call of a process inside _doSave
SaverStep(p) ==
    \/ ExistsSync(p)
    \/ StatSync(p)
    \/ UnlinkStale(p)
    \/ WaitCheck(p)
    \/ Spin(p)
    \/ WriteLock(p)
    \/ \E written \in BOOLEAN : WriteData(p, written)
    \/ ReleaseLock(p)

(* ------------------------------------------------------------------ *)
(* claude-caller.js                                                    *)
(* ------------------------------------------------------------------ *)
\* the argument `prompt`: a string of some length, or no string
NonStringPrompt == [isString |-> FALSE, length |-> 0]

StringPrompt(n) == [isString |-> TRUE, length |-> n]

\* the test `!prompt || typeof prompt !== 'string'`
PromptRequired(prompt) == ~prompt.isString \/ prompt.length = 0

\* faulty variant: no limit on the length of a prompt
PromptTooLong_Never(prompt) == FALSE

\* the test `prompt.length > MAX_PROMPT_LENGTH`
PromptTooLong(prompt) == prompt.length > MAX_PROMPT_LENGTH

\* validatePrompt(prompt)
ValidatePrompt(prompt) ==
    IF PromptRequired(prompt)
    THEN [valid |-> FALSE, error |-> "Prompt must be a non-empty string"]
    ELSE IF PromptTooLong(prompt)
    THEN [valid |-> FALSE, error |-> "Prompt too long (max 10000 characters)"]
    ELSE [valid |-> TRUE, error |-> "none"]

\* the option `cwd`: whether it is a string, its length, and whether it
\* includes '..'
Cwd(isString, length, traversal) ==
    [isString |-> isString, length |-> length, traversal |-> traversal]

\* validateCwd(cwd, null)
ValidateCwd(cwd) ==
    IF ~cwd.isString \/ cwd.length = 0
    THEN [valid |-> FALSE, error |-> "Working directory must be a non-empty string"]
    ELSE IF cwd.length > MAX_PATH_LENGTH
    THEN [valid |-> FALSE, error |-> "Path too long"]
    ELSE IF cwd.traversal
    THEN [valid |-> FALSE, error |-> "Path traversal not allowed"]
    ELSE [valid |-> TRUE, error |-> "none"]

\* the text of the values given as option `sessionId`, NullSid being null
SessionIdText ==
    ("s1" :> <<"0", "a", "1", "b", "-", "2", "c", "3">>)
    @@ ("s2" :> <<"A", "B", "C", "D", "E", "F", "0", "9", "-">>)
    @@ ("empty" :> <<>>)
    @@ ("short" :> <<"0", "a", "1", "b", "2", "c", "3">>)
    @@ ("word" :> <<"s", "e", "s", "s", "i", "o", "n", "1">>)
    @@ ("shell" :> <<"0", "a", "1", "b", "2", "c", "3", "d", ";", "x">>)

\* the test `if (sessionId)`
SessionIdGiven(sessionId) == sessionId # NullSid /\ SessionIdText[sessionId] # <<>>

HexChars ==
    {"a", "b", "c", "d", "e", "f", "0", "1", "2", "3", "4", "5", "6", "7", "8", "9"}

\* faulty variant: every session id is taken to be well formed
SessionIdWellFormed_Always(sessionId) == TRUE

\* /^[a-f0-9-]{8,}$/i.test(sessionId)
SessionIdWellFormed(sessionId) ==
    LET text == SessionIdText[sessionId]
    IN /\ Len(text) >= 8
       /\ \A i \in 1..Len(text) : LowerCase(text[i]) \in HexChars \cup {"-"}

\* the value a call resolves with: result (the kind of text), sessionId,
\* success, and whether invalidSession is present and true
NoResult ==
    [resolved |-> FALSE, result |-> "none", sessionId |-> NullSid,
     success |-> FALSE, invalidSession |-> FALSE]

Result(result, sessionId, success, invalidSession) ==
    [resolved |-> TRUE, result |-> result, sessionId |-> sessionId,
     success |-> success, invalidSession |-> invalidSession]

\* the exit codes of the model: 0, another code, null for a subprocess
\* ended by a signal, the negative code of a failed spawn
NoCode == "none"

ExitCodes == {"0", "1", "null"}

SpawnErrorCode == "-2"

\* what the subprocess has written on stdout when it closes: JSON with or
\* without a session_id, or other text
NoOutput == [json |-> FALSE, session_id |-> NullSid]

Stdouts ==
    {[json |-> TRUE, session_id |-> "s1"], [json |-> TRUE, session_id |-> NullSid],
     NoOutput}

\* the markers of the close handler, and what the subprocess has written
\* on stderr, as a sequence of pieces of text
SessionMarkers ==
    {"No conversation found with session ID", "Invalid session", "session not found"}

Stderrs ==
    {<<>>, <<"Error: ", "No conversation found with session ID", " 0a1b">>,
     <<"Invalid session">>, <<"session not found", "\n">>, <<"Session not found">>,
     <<"Error: ", "rate limit">>}

\* faulty variant: every error output counts as a marker
IsInvalidSession_AnyOutput(stderr) == stderr # <<>>

\* `stderr && (stderr.includes(...) || ...)`, as a condition
IsInvalidSession(stderr) ==
    /\ stderr # <<>>
    /\ \E i \in 1..Len(stderr) : stderr[i] \in SessionMarkers

\* the value the close handler resolves with
CloseResult(code, stdout, stderr) ==
    IF code # "0"
    THEN Result("Claude Code encountered an error. Please try again.", NullSid,
                FALSE, IsInvalidSession(stderr))
    ELSE IF stdout.json
    THEN Result("output", stdout.session_id, TRUE, FALSE)
    ELSE Result("raw output", NullSid, TRUE, FALSE)

TimeoutResult == Result("Request timed out after 300 seconds", NullSid, FALSE, FALSE)

SpawnErrorResult ==
    Result("Failed to start Claude Code. Please check installation.", NullSid,
           FALSE, FALSE)

\* faulty variant: the resolve of a handler that runs later wins
Resolve_LastWins(invocation, value) == value

\* resolve(value): only the first call settles the promise
Resolve(invocation, value) ==
    IF invocation.result.resolved THEN invocation.result ELSE value

NoTempFile == 0

\* who called callClaude when it was not an adapter
Direct == "direct"

\* an invocation before callClaude has done anything; for a call made by
\* an adapter, the chat and the projectDir of handleMessage; stderr is the
\* error output captured by the time of the 'close' event
NewInvocation(caller, projectDir, prompt, sessionId) ==
    [caller |-> caller, projectDir |-> projectDir, prompt |-> prompt,
     sessionId |-> sessionId, tempFile |-> NoTempFile, command |-> "none",
     child |-> "none", code |-> NoCode, stderr |-> <<>>, timer |-> "none",
     sigterm |-> 0, result |-> NoResult]

\* the prompt files after writeFileSync(tempFile) and unlinkSync(tempFile)
RejectedTempFiles(files, tempFile) == (files \cup {tempFile}) \ {tempFile}

\* callClaude(prompt, {cwd, sessionId, continueSession}) at the time `now`,
\* up to its return: the validations, the prompt file, the command line,
\* spawn, the timer
Invoked(caller, projectDir, prompt, cwd, sessionId, continueSession, now) ==
    LET new == NewInvocation(caller, projectDir, prompt, sessionId)
    IN IF ~ValidatePrompt(prompt).valid
       THEN [new EXCEPT !.result = Result("Input error", NullSid, FALSE, FALSE)]
       ELSE IF ~ValidateCwd(cwd).valid
       THEN [new EXCEPT !.result = Result("Path error", NullSid, FALSE, FALSE)]
       ELSE IF SessionIdGiven(sessionId) /\ ~SessionIdWellFormed(sessionId)
       THEN [new EXCEPT !.tempFile = now,
                        !.result = Result("Invalid session ID format", NullSid,
                                          FALSE, FALSE)]
       ELSE [new EXCEPT !.tempFile = now,
                        !.command = IF SessionIdGiven(sessionId) THEN "resume"
                                    ELSE IF continueSession THEN "continue"
                                    ELSE "plain",
                        !.child = "running",
                        !.timer = "pending"]

\* the code of handleMessage after `await callClaude(...)`, run when the
\* promise of an invocation made by an adapter is settled
Settles(old, new) ==
    IF ~old.result.resolved /\ new.result.resolved /\ old.caller # Direct
    THEN ApplyResult([chat |-> old.caller, projectDir |-> old.projectDir,
                      sessionId |-> old.sessionId], new.result)
    ELSE UNCHANGED <<sessions, saveTimer, saveTimers, pendingSave>>

\* what a call of callClaude and the events of a subprocess leave alone
CallerFrame ==
    /\ UNCHANGED <<allowedChatIds, rateLimits, dataFile, histVars>>
    /\ UNCHANGED <<queueVars, shortcutVars, lockVars>>

\* no time or one millisecond has passed since the call before
Invoke(caller, projectDir, prompt, cwd, sessionId, continueSession, now) ==
    LET new == Invoked(caller, projectDir, prompt, cwd, sessionId, continueSession, now)
    IN /\ Len(invocations) < MaxInvocations
       /\ now \in {clock, clock + 1}
       /\ clock' = now
       /\ invocations' = Append(invocations, new)
       /\ tempFiles' = IF new.tempFile = NoTempFile THEN tempFiles
                       ELSE IF new.child = "none"
                       THEN RejectedTempFiles(tempFiles, new.tempFile)
                       ELSE tempFiles \cup {new.tempFile}
       /\ Settles(NewInvocation(caller, projectDir, prompt, sessionId), new)
       /\ CallerFrame

\* callClaude called directly
CallClaude(prompt, cwd, sessionId, continueSession, now) ==
    /\ Invoke(Direct, NoDir, prompt, cwd, sessionId, continueSession, now)
    /\ UNCHANGED calls

\* handleMessage resumes after 'Processing...' is sent and calls callClaude
\* with its text, which the length test has let through or which is the
\* expansion of a shortcut, and with its projectDir and sessionId
TgCallClaude(call, len, now) ==
    /\ call.state = "awaiting"
    /\ calls' = calls (-) SetToBag({call})
    /\ Invoke(call.chat, call.projectDir, StringPrompt(len), Cwd(TRUE, 2, FALSE),
              call.sessionId, FALSE, now)

\* the 'exit' event: the prompt file is unlinked, errors ignored
ChildExit(i, code) ==
    /\ invocations[i].child = "running"
    /\ invocations' = [invocations EXCEPT ![i].child = "exited", ![i].code = code]
    /\ tempFiles' = tempFiles \ {invocations[i].tempFile}
    /\ UNCHANGED <<sessions, saveTimer, saveTimers, pendingSave, calls, clock>>
    /\ CallerFrame

\* the 'close' event, after 'exit' or after the 'error' of a failed spawn
ChildClose(i, stdout, stderr) ==
    /\ invocations[i].child \in {"exited", "failed"}
    /\ invocations[i].child = "failed" => stdout = NoOutput /\ stderr = <<>>
    /\ invocations' =
          [invocations EXCEPT
              ![i].child = "closed",
              ![i].stderr = stderr,
              ![i].timer = IF @ = "pending" THEN "cleared" ELSE @,
              ![i].result = Resolve(invocations[i],
                                    CloseResult(invocations[i].code, stdout, stderr))]
    /\ Settles(invocations[i], invocations'[i])
    /\ UNCHANGED <<tempFiles, calls, clock>>
    /\ CallerFrame

\* the 'error' event of a subprocess that could not be spawned; it is
\* emitted on the next tick, before any timer, and no 'exit' follows
SpawnFails(i) ==
    /\ invocations[i].child = "running"
    /\ invocations[i].timer = "pending"
    /\ invocations' =
          [invocations EXCEPT
              ![i].child = "failed",
              ![i].code = SpawnErrorCode,
              ![i].timer = "cleared",
              ![i].result = Resolve(invocations[i], SpawnErrorResult)]
    /\ Settles(invocations[i], invocations'[i])
    /\ UNCHANGED <<tempFiles, calls, clock>>
    /\ CallerFrame

\* the timeout handler: child.kill('SIGTERM') and the timeout result
Timeout(i) ==
    /\ invocations[i].timer = "pending"
    /\ invocations' =
          [invocations EXCEPT
              ![i].timer = "fired",
              ![i].sigterm = @ + 1,
              ![i].result = Resolve(invocations[i], TimeoutResult)]
    /\ Settles(invocations[i], invocations'[i])
    /\ UNCHANGED <<tempFiles, calls, clock>>
    /\ CallerFrame

(* ------------------------------------------------------------------ *)
(* Specifications                                                      *)
(* ------------------------------------------------------------------ *)
InitQueue ==
    /\ queues = [c \in Chats |-> EmptyQueueData]
    /\ nextId = 1
    /\ ret = NoRet
    /\ procSignals = [p \in Procs |-> {}]
    /\ killTimers = [c \in Chats |-> 0]
    /\ lastDispatched = [c \in Chats |-> 0]
    /\ lastCancelled = [c \in Chats |-> 0]

InitBot ==
    /\ rateLimits = [c \in Chats |-> 0]
    /\ sessions = [c \in Chats |-> NoSession]
    /\ saveTimer = FALSE
    /\ saveTimers = 0
    /\ pendingSave = FALSE
    /\ dataFile = Stringify(sessions)
    /\ calls = EmptyBag
    /\ lastCall = NoCall
    /\ burst = 0
    /\ windowWrites = 0
    /\ flushed = sessions
    /\ lost = FALSE

InitShortcuts ==
    /\ shortcuts = [c \in Chats |-> NoShortcuts]
    /\ shortcutsFile = StringifyShortcuts(shortcuts)
    /\ sret = NoShortcutRet
    /\ expanded = NoExpansion

InitCaller ==
    /\ invocations = <<>>
    /\ tempFiles = {}
    /\ clock = 1

InitLock ==
    /\ lockFile = NoLock
    /\ savers = [p \in OsProcs |-> Idle]

Init == InitQueue /\ InitBot /\ InitShortcuts /\ InitCaller /\ InitLock /\ allowedChatIds = {}

\* every queue operation on every chat, with every kind of task argument
Next ==
    \/ \E c \in Chats, task \in TaskArgs : nextId <= MaxTasks /\ AddTask(c, task)
    \/ \E c \in Chats : StartProcessing(c)
    \/ \E c \in Chats, taskId \in 1..nextId : CompleteTask(c, taskId)
    \/ \E c \in Chats : CancelCurrent(c)
    \/ \E c \in Chats : ClearQueue(c)

Spec == Init /\ [][Next]_vars

\* one chat whose queue can be filled to MAX_QUEUE_SIZE
CapNext ==
    \/ \E c \in CapChats, task \in CapTaskArgs : nextId <= MaxCapTasks /\ AddTask(c, task)
    \/ \E c \in CapChats : StartProcessing(c)
    \/ \E c \in CapChats, taskId \in 1..nextId : CompleteTask(c, taskId)
    \/ \E c \in CapChats : CancelCurrent(c)
    \/ \E c \in CapChats : ClearQueue(c)

SpecCap == Init /\ [][CapNext]_vars

\* one chat with the process handles of its tasks and the forced-kill timers
ProcNext ==
    \/ \E c \in CapChats, task \in CapTaskArgs : nextId <= MaxProcTasks /\ AddTask(c, task)
    \/ \E c \in CapChats : StartProcessing(c)
    \/ \E c \in CapChats, taskId \in 1..nextId : CompleteTask(c, taskId)
    \/ \E c \in CapChats :
          /\ killTimers[c] < MaxTimers \/ queues[c].currentProcess = NoProc
          /\ CancelCurrent(c)
    \/ \E c \in CapChats : ClearQueue(c)
    \/ \E c \in CapChats, p \in Procs : SetCurrentProcess(c, p)
    \/ \E c \in CapChats : ForceKillTimer(c)

SpecProc == Init /\ [][ProcNext]_vars

\* one chat whose tasks run in subprocesses: a handle is registered for the
\* task that is processing and bears the id of that task, and no subprocess
\* ends by itself or on SIGTERM
KillNext ==
    \/ \E c \in CapChats, task \in CapTaskArgs : nextId <= MaxProcTasks /\ AddTask(c, task)
    \/ \E c \in CapChats : StartProcessing(c)
    \/ \E c \in CapChats, taskId \in 1..nextId : CompleteTask(c, taskId)
    \/ \E c \in CapChats :
          /\ killTimers[c] < MaxTimers \/ queues[c].currentProcess = NoProc
          /\ CancelCurrent(c)
    \/ \E c \in CapChats, p \in Procs :
          /\ queues[c].isProcessing /\ queues[c].currentTask # NullTask
          /\ p = queues[c].currentTask.id
          /\ p # queues[c].currentProcess
          /\ SetCurrentProcess(c, p)
    \/ \E c \in CapChats : ForceKillTimer(c)

SpecKill == Init /\ [][KillNext]_vars

\* the adapter started with or without a whitelist
BotInit ==
    InitQueue /\ InitBot /\ InitShortcuts /\ InitCaller /\ InitLock /\ allowedChatIds \in Whitelists

BotNext ==
    \/ \E c \in Chats, len \in MessageLengths : Unfinished < MaxCalls /\ TgOnMessage(c, len)
    \/ \E c \in Chats : RateWindowElapses(c)
    \/ \E call \in DOMAIN calls : CallClaudeSpawn(call)
    \/ \E call \in DOMAIN calls, outcome \in CloseOutcomes : CallCloses(call, outcome)
    \/ \E call \in DOMAIN calls : CallTimesOut(call)
    \/ \E call \in DOMAIN calls : TimedOutCloses(call)
    \/ \E call \in DOMAIN calls : CallSpawnError(call)
    \/ \E c \in Chats : HandleNew(c)
    \/ \E c \in Chats : HandleCancel(c)
    \/ \E c \in Chats : HandleQueueClear(c)
    \/ SaveTimerFires

SpecBot == BotInit /\ [][BotNext]_vars

\* one chat whose tasks are all enqueued first and then dispatched and
\* completed one after the other, each completeTask naming the task that
\* startProcessing returned
RunNext ==
    \/ \E c \in CapChats, task \in CapTaskArgs :
          /\ lastDispatched[c] = 0
          /\ nextId <= MaxRunTasks
          /\ AddTask(c, task)
    \/ \E c \in CapChats : StartProcessing(c)
    \/ \E c \in CapChats :
          /\ queues[c].isProcessing
          /\ CompleteTask(c, queues[c].currentTask.id)

SpecRun == Init /\ [][RunNext]_vars

\* the SessionManager API called directly: every mutation on one chat, a
\* bystander chat, the debounce timer and restarts of the process
BurstOpen == saveTimers = 0 \/ burst < MaxBurst

StoreNext ==
    \/ \E c \in CapChats, sessionInfo \in SessionInfos :
          BurstOpen /\ CallSetSession(c, sessionInfo)
    \/ \E c \in CapChats, sessionId \in StoreSessionIds,
          projectDir \in {NoDir} \cup ProjectDirs :
          BurstOpen /\ CallUpdateSessionId(c, sessionId, projectDir)
    \/ \E c \in Chats : \E projectDir \in StoreDirs(c) :
          BurstOpen /\ CallSetProjectDir(c, projectDir)
    \/ \E c \in Chats : BurstOpen /\ CallClearSession(c)
    \/ \E written \in BOOLEAN : StoreTimerFires(written)
    \/ Restart

SpecStore == Init /\ [][StoreNext]_vars

\* the SessionManager API in a process that keeps running and whose writes
\* go through
PersistNext ==
    \/ \E c \in CapChats, sessionInfo \in SessionInfos :
          BurstOpen /\ CallSetSession(c, sessionInfo)
    \/ \E c \in CapChats, sessionId \in StoreSessionIds,
          projectDir \in {NoDir} \cup ProjectDirs :
          BurstOpen /\ CallUpdateSessionId(c, sessionId, projectDir)
    \/ \E c \in Chats : \E projectDir \in StoreDirs(c) :
          BurstOpen /\ CallSetProjectDir(c, projectDir)
    \/ \E c \in Chats : BurstOpen /\ CallClearSession(c)
    \/ StoreTimerFires(TRUE)

SpecPersist == Init /\ [][PersistNext]_vars

\* a timer that setTimeout has armed runs its callback while the process runs
SpecPersistLive == SpecPersist /\ WF_vars(StoreTimerFires(TRUE))

\* the names and commands given to the ShortcutsManager
NameInputs ==
    {NotAString, Str(<<>>), Str(<<" ">>), Str(<<"a">>), Str(<<"A">>),
     Str(<<" ", "a", " ">>), Str(<<"a", "-">>), Str(<<"n", "e", "w">>),
     Str(<<"N", "E", "W">>), Str(Rep("a", MAX_SHORTCUT_NAME_LENGTH)),
     Str(Rep("a", MAX_SHORTCUT_NAME_LENGTH + 1)), Str(ConstructorName),
     Str(ProtoName)}

CommandInputs ==
    {NotAString, Str(<<>>), Str(<<" ">>), Str(<<"x">>), Str(<<" ", "x", "\n">>),
     Str(<<"x*999", "x">>), Str(<<"x*999", "x", "x">>),
     Str(<<" ", "x*999", "x", " ">>),
     Str(<<"rm", " ", "-rf">>), Str(<<"x", " ", "RM", " ", "\t", "-rf", " ", "x">>),
     Str(<<"rm", "-rf">>), Str(<<"del", " ", "/s">>), Str(<<"format", " ", "c:">>),
     Str(<<"x", "mkfs", "x">>), Str(<<"dd", " ", "if=">>), Str(<<">", "/dev/sd">>),
     Str(<<"chmod", " ", "777">>), Str(<<"CURL", "x", "|", " ", "sh">>),
     Str(<<"wget", "|", "sh">>), Str(<<"curl", "\n", "|", "sh">>)}

\* what the bystander chat of the shortcut specification is given
BystanderNames == {Str(<<"a">>)}

BystanderCommands == {Str(<<"x">>)}

\* every name with a plain command, and every command with a plain name
ShortcutInputs ==
    (NameInputs \X {Str(<<"x">>)}) \cup ({Str(<<"a">>)} \X CommandInputs)

\* the ShortcutsManager API called directly on one chat with every input and
\* on a bystander chat; the writes of the file go through
ShortcutNext ==
    \/ \E c \in CapChats, input \in ShortcutInputs :
          SetShortcut(c, input[1], input[2], "t1", TRUE)
    \/ \E c \in Chats \ CapChats, name \in BystanderNames, command \in BystanderCommands :
          SetShortcut(c, name, command, "t1", TRUE)
    \/ \E c \in CapChats, name \in NameInputs \ {NotAString} :
          DeleteShortcut(c, name, TRUE)
    \/ \E c \in Chats \ CapChats, name \in BystanderNames :
          DeleteShortcut(c, name, TRUE)

SpecShortcut == Init /\ [][ShortcutNext]_vars

\* the i-th of the valid names a chat is given when its shortcuts are filled
\* up: a, aa, ... and, past the longest name, b
NthName(i) ==
    IF i <= MAX_SHORTCUT_NAME_LENGTH THEN Rep("a", i)
    ELSE <<"b">> \o Rep("b", i - MAX_SHORTCUT_NAME_LENGTH - 1)

CapCommands == {Str(<<"x">>), Str(<<"y">>)}

\* the names of the filled-up chat that are set again
UpdatedNames == {NthName(1), NthName(MAX_SHORTCUTS_PER_USER)}

\* one chat whose shortcuts are filled up to MAX_SHORTCUTS_PER_USER: the next
\* new name is added, the first and the last name are set again, the name
\* added last is deleted
ShortcutCapNext ==
    \/ \E c \in CapChats :
          SetShortcut(c, Str(NthName(KeyCount(shortcuts[c]) + 1)), Str(<<"x">>),
                      "t1", TRUE)
    \/ \E c \in CapChats, name \in UpdatedNames, command \in CapCommands, now \in Times :
          /\ HasOwnProperty(shortcuts[c], name)
          /\ SetShortcut(c, Str(name), command, now, TRUE)
    \/ \E c \in CapChats :
          /\ KeyCount(shortcuts[c]) >= 1
          /\ DeleteShortcut(c, Str(NthName(KeyCount(shortcuts[c]))), TRUE)

SpecShortcutCap == Init /\ [][ShortcutCapNext]_vars

\* the templates and messages of the expansion specification; a
\* template and a message are written character by character
ExpandTemplates ==
    {Str(<<"x", " ", "$", "1">>), Str(<<"$", "2", " ", "$", "1">>),
     Str(<<"x", "$", "1", "0">>), Str(<<"x">>)}

ExpandInputs ==
    ({Str(<<"a">>)} \X ExpandTemplates) \cup ({Str(<<"b">>)} \X {Str(<<"y">>)})

ExpandMessages ==
    {<<>>, <<"/">>, <<"/", "a">>, <<"/", "A">>, <<"/", "a", " ", "y">>,
     <<"/", "a", " ", "\t", "y", " ", "x">>, <<"/", "a", " ", "y", " ">>,
     <<"/", "a", " ", "$", "2", " ", "y">>, <<"/", "a", " ", "$", "&">>,
     <<"/", "a", " ", "$", "$">>, <<"/", "a", " ", "$", "2">>,
     <<"/", "a", " ", "1", " ", "2", " ", "3", " ", "4", " ", "5", " ", "6",
       " ", "7", " ", "8", " ", "9", " ", "y">>,
     <<"/", " ", "a">>, <<"a">>, <<"x", "a", " ", "y">>, <<"/", "b">>,
     <<"/", "c", " ", "y">>, <<"/", "a", "b">>,
     <<"/">> \o ConstructorName, <<"/">> \o ProtoName}

\* shortcuts are defined and deleted on one chat and on a bystander chat,
\* and messages are expanded on both
ExpandNext ==
    \/ \E c \in CapChats, input \in ExpandInputs :
          SetShortcut(c, input[1], input[2], "t1", TRUE)
    \/ \E c \in Chats \ CapChats, name \in BystanderNames, command \in BystanderCommands :
          SetShortcut(c, name, command, "t1", TRUE)
    \/ \E c \in Chats, name \in BystanderNames : DeleteShortcut(c, name, TRUE)
    \/ \E c \in Chats, message \in ExpandMessages : Expand(c, message)

SpecExpand == Init /\ [][ExpandNext]_vars

\* the names given to the ShortcutsManager when the write of the file can
\* fail: two valid names and a reserved one
WriteNames == {Str(<<"a">>), Str(<<"b">>), Str(<<"n", "e", "w">>)}

\* the ShortcutsManager API on one chat and on a bystander chat, where
\* writeFileSync either goes through or throws
ShortcutWriteNext ==
    \/ \E c \in CapChats, name \in WriteNames, command \in CapCommands,
          written \in BOOLEAN :
          SetShortcut(c, name, command, "t1", written)
    \/ \E c \in Chats \ CapChats, name \in BystanderNames, command \in BystanderCommands,
          written \in BOOLEAN :
          SetShortcut(c, name, command, "t1", written)
    \/ \E c \in Chats, name \in BystanderNames, written \in BOOLEAN :
          DeleteShortcut(c, name, written)

SpecShortcutWrite == Init /\ [][ShortcutWriteNext]_vars

\* the arguments of callClaude: every prompt with a plain directory and
\* session id, every directory with a plain prompt, every session id
PromptInputs ==
    {NonStringPrompt, StringPrompt(0), StringPrompt(1), StringPrompt(MAX_PROMPT_LENGTH),
     StringPrompt(MAX_PROMPT_LENGTH + 1)}

CwdInputs ==
    {Cwd(TRUE, 2, FALSE), Cwd(FALSE, 0, FALSE), Cwd(TRUE, 0, FALSE),
     Cwd(TRUE, MAX_PATH_LENGTH, FALSE), Cwd(TRUE, MAX_PATH_LENGTH + 1, FALSE),
     Cwd(TRUE, 5, TRUE)}

SessionIdInputs == {NullSid} \cup DOMAIN SessionIdText

CallerInputs ==
    (PromptInputs \X {Cwd(TRUE, 2, FALSE)} \X {NullSid, "s1", "word"} \X {FALSE})
    \cup ({StringPrompt(1)} \X CwdInputs \X {NullSid, "word"} \X {FALSE})
    \cup ({StringPrompt(1)} \X {Cwd(TRUE, 2, FALSE)} \X SessionIdInputs \X BOOLEAN)

\* what the invocations after the first are given
LaterCallerInputs ==
    {StringPrompt(1)} \X {Cwd(TRUE, 2, FALSE)} \X {NullSid, "short"} \X {FALSE}

\* the lengths of the text handleMessage passes on (in FeishuClaudeBot the
\* expansion of a shortcut is made after the length test)
RelayedLengths == {1, MAX_MESSAGE_LENGTH + 1}

\* what the subprocess of the first invocation ends with, and what the
\* subprocesses of the later ones end with
ExitCodesOf(i) == IF i = 1 THEN ExitCodes ELSE {"0"}

StdoutsOf(i) == IF i = 1 THEN Stdouts ELSE {NoOutput}

StderrsOf(i) == IF i = 1 THEN Stderrs ELSE {<<>>}

\* the times of the next call
Nows == {clock, clock + 1}

\* callClaude called directly, the first time with every input, and the
\* events of the subprocesses in every order
CallerNext ==
    \/ \E input \in CallerInputs, now \in Nows :
          /\ invocations = <<>>
          /\ CallClaude(input[1], input[2], input[3], input[4], now)
    \/ \E input \in LaterCallerInputs, now \in Nows :
          /\ invocations # <<>>
          /\ CallClaude(input[1], input[2], input[3], input[4], now)
    \/ \E i \in DOMAIN invocations : \E code \in ExitCodesOf(i) : ChildExit(i, code)
    \/ \E i \in DOMAIN invocations : \E stdout \in StdoutsOf(i), stderr \in StderrsOf(i) :
          ChildClose(i, stdout, stderr)
    \/ \E i \in DOMAIN invocations : SpawnFails(i)
    \/ \E i \in DOMAIN invocations : Timeout(i)

SpecCaller == Init /\ [][CallerNext]_vars

\* the bot starts with the session of a chat loaded from sessions.json, or
\* without one
RelayInit ==
    /\ InitQueue /\ InitShortcuts /\ InitCaller /\ InitLock
    /\ allowedChatIds \in Whitelists
    /\ rateLimits = [c \in Chats |-> 0]
    /\ sessions \in {[c \in Chats |-> NoSession],
                     [c \in Chats |-> IF c \in CapChats
                                      THEN [exists |-> TRUE, projectDir |-> "/a",
                                            sessionId |-> "s2", extra |-> NoExtra]
                                      ELSE NoSession]}
    /\ saveTimer = FALSE
    /\ saveTimers = 0
    /\ pendingSave = FALSE
    /\ dataFile = Stringify(sessions)
    /\ calls = EmptyBag
    /\ lastCall = NoCall
    /\ burst = 0
    /\ windowWrites = 0
    /\ flushed = sessions
    /\ lost = FALSE

\* the messages of one chat relayed to callClaude by the adapter, the events
\* of the subprocesses in every order, and the save timer of the session
\* store
RelayNext ==
    \/ \E c \in CapChats, len \in MessageLengths :
          /\ Unfinished + Len(invocations) < MaxInvocations
          /\ rateLimits[c] < MaxInvocations
          /\ TgOnMessage(c, len)
    \/ \E call \in DOMAIN calls, len \in RelayedLengths, now \in Nows :
          TgCallClaude(call, len, now)
    \/ \E i \in DOMAIN invocations : \E code \in ExitCodesOf(i) : ChildExit(i, code)
    \/ \E i \in DOMAIN invocations : \E stdout \in StdoutsOf(i), stderr \in StderrsOf(i) :
          ChildClose(i, stdout, stderr)
    \/ \E i \in DOMAIN invocations : SpawnFails(i)
    \/ \E i \in DOMAIN invocations : Timeout(i)
    \/ SaveTimerFires

SpecRelay == RelayInit /\ [][RelayNext]_vars

\* callClaude called directly with every prompt and by the adapter for the
\* messages of one chat; every subprocess ends with code 0 and no output
\* before its timeout
PromptNext ==
    \/ \E prompt \in PromptInputs, now \in Nows :
          CallClaude(prompt, Cwd(TRUE, 2, FALSE), NullSid, FALSE, now)
    \/ \E c \in CapChats, len \in MessageLengths :
          /\ Unfinished + Len(invocations) < MaxInvocations
          /\ rateLimits[c] < MaxInvocations
          /\ TgOnMessage(c, len)
    \/ \E call \in DOMAIN calls, len \in RelayedLengths, now \in Nows :
          TgCallClaude(call, len, now)
    \/ \E i \in DOMAIN invocations : ChildExit(i, "0")
    \/ \E i \in DOMAIN invocations : ChildClose(i, NoOutput, <<>>)

SpecPrompt == BotInit /\ [][PromptNext]_vars

\* texts that start with '/' and name no command of the bot
SlashMessages == {<<"/", "a", " ", "y">>, <<"/", "b">>}

\* the shortcut that /shortcut add is given
AuthNames == {Str(<<"a">>)}

AuthCommands == {Str(<<"x", " ", "$", "1">>)}

\* the directory that /project and /resume are given
AuthDirs == {"/a"}

\* the bot with or without a whitelist: a chat that is never on the
\* whitelist sends every message and command that reads or changes a store;
\* the chat that is on the whitelist, if there is one, sends messages, /new
\* and /shortcut add; every subprocess closes before its timeout
AuthNext ==
    \/ \E c \in Chats, len \in RelayedLengths :
          /\ Unfinished < MaxAuthMessages
          /\ rateLimits[c] < MaxAuthMessages
          /\ TgOnMessage(c, len)
    \/ \E c \in Chats, message \in SlashMessages :
          /\ Unfinished < MaxAuthMessages
          /\ rateLimits[c] < MaxAuthMessages
          /\ TgOnSlashMessage(c, message)
    \/ \E c \in Chats : RateWindowElapses(c)
    \/ \E call \in DOMAIN calls : CallClaudeSpawn(call)
    \/ \E call \in DOMAIN calls, outcome \in CloseOutcomes : CallCloses(call, outcome)
    \/ \E c \in Chats : HandleNew(c)
    \/ \E c \in Chats \ CapChats, projectDir \in AuthDirs : HandleProject(c, projectDir)
    \/ \E c \in Chats \ CapChats, sessionId \in StoreSessionIds, cwd \in AuthDirs :
          HandleResume(c, sessionId, cwd)
    \/ \E c \in Chats \ CapChats : HandleCancel(c)
    \/ \E c \in Chats \ CapChats : HandleQueueClear(c)
    \/ \E c \in Chats, name \in AuthNames, command \in AuthCommands :
          HandleShortcutAdd(c, name, command, "t1", TRUE)
    \/ \E c \in Chats \ CapChats, name \in AuthNames : HandleShortcutDel(c, name, TRUE)
    \/ SaveTimerFires

SpecAuth == BotInit /\ [][AuthNext]_vars

\* a whitelisted chat whose messages are relayed while it sends /new and
\* /project; every subprocess closes before its timeout
RaceNext ==
    \/ \E c \in CapChats :
          /\ Unfinished < MaxCalls
          /\ rateLimits[c] < MaxCalls
          /\ TgOnMessage(c, 1)
    \/ \E call \in DOMAIN calls : CallClaudeSpawn(call)
    \/ \E call \in DOMAIN calls, outcome \in CloseOutcomes : CallCloses(call, outcome)
    \/ \E c \in CapChats : HandleNew(c)
    \/ \E c \in CapChats, projectDir \in ProjectDirs : HandleProject(c, projectDir)
    \/ SaveTimerFires

SpecRace == BotInit /\ [][RaceNext]_vars

\* the texts a Feishu chat sends: /shortcut add shortcut x, /shortcut del
\* shortcut, /shortcut add a x, /shortcut del a, /shortcut add new x, /new,
\* /a, /help and y
FsMessages ==
    LET shortcut == <<"/", "s", "h", "o", "r", "t", "c", "u", "t">>
        add == <<" ", "a", "d", "d", " ">>
        del == <<" ", "d", "e", "l", " ">>
        new == <<"n", "e", "w">>
    IN {shortcut \o add \o Tail(shortcut) \o <<" ", "x">>,
        shortcut \o del \o Tail(shortcut),
        shortcut \o add \o <<"a", " ", "x">>,
        shortcut \o del \o <<"a">>,
        shortcut \o add \o new \o <<" ", "x">>,
        <<"/">> \o new,
        <<"/", "a">>,
        <<"/", "h", "e", "l", "p">>,
        <<"y">>}

\* the Feishu adapter: chats define and delete shortcuts, send commands and
\* texts; every subprocess closes before its timeout
ShadowNext ==
    \/ \E c \in Chats, message \in FsMessages :
          /\ Unfinished < MaxAuthMessages
          /\ rateLimits[c] < MaxAuthMessages
          /\ FsHandleMessage(c, message, "t1", TRUE)
    \/ \E c \in Chats : RateWindowElapses(c)
    \/ \E call \in DOMAIN calls : CallClaudeSpawn(call)
    \/ \E call \in DOMAIN calls, outcome \in CloseOutcomes : CallCloses(call, outcome)
    \/ SaveTimerFires

SpecShadow == BotInit /\ [][ShadowNext]_vars

\* two processes that save to one sessions.json again and again; one of
\* them may die while it holds the lock; time passes at any point
LockNext ==
    \/ \E p \in OsProcs : DoSave(p)
    \/ \E p \in OsProcs : SaverStep(p)
    \/ \E p \in MortalProcs : Dies(p)
    \/ Tick

SpecLock == Init /\ [][LockNext]_vars

\* every process that has not died goes on with its next file-system call
SpecLockLive == SpecLock /\ \A p \in OsProcs : WF_vars(SaverStep(p))

(* ------------------------------------------------------------------ *)
(* Claims                                                              *)
(* ------------------------------------------------------------------ *)
ProcessingCount(q) == Cardinality({i \in 1..Len(q) : q[i].status = "processing"})

RemoveId(q, id) == SelectSeq(q, LAMBDA t : t.id # id)

\* C1: a chat's queue never holds more than MAX_QUEUE_SIZE (10) tasks, and an
\* addTask made while it holds 10 returns a failure (error "Queue full" for a
\* well-formed task) and leaves the queue, isProcessing and currentTask as
\* they were.
C1_QueueBounded ==
    /\ [](\A c \in Chats : Len(queues[c].queue) <= MAX_QUEUE_SIZE)
    /\ [][\A c \in Chats, task \in TaskArgs :
            (Len(queues[c].queue) >= MAX_QUEUE_SIZE /\ AddTask(c, task))
            => /\ ~ret'.ok
               /\ ret'.val = -1
               /\ (~InvalidTaskFormat(task) /\ ~TaskTooLong(task)
                     => ret'.err = "Queue full")
               /\ queues' = queues]_vars

C1_Witness ==
    /\ ret.op = "addTask" /\ ~ret.ok /\ ret.err = "Queue full"
    /\ Len(queues[ret.chat].queue) = MAX_QUEUE_SIZE

\* C2: at most one task of a chat's queue has status 'processing', and
\* startProcessing called while the chat is processing returns null and
\* changes nothing.
C2_OneProcessing ==
    /\ [](\A c \in Chats : ProcessingCount(queues[c].queue) <= 1)
    /\ [][\A c \in Chats :
            (queues[c].isProcessing /\ StartProcessing(c))
            => /\ ~ret'.ok /\ ret'.val = 0
               /\ UNCHANGED <<queues, nextId, lastDispatched>>]_vars

C2_Witness ==
    /\ ret.op = "startProcessing" /\ ~ret.ok
    /\ queues[ret.chat].isProcessing
    /\ Len(queues[ret.chat].queue) >= 2
    /\ ProcessingCount(queues[ret.chat].queue) = 1

C4_OneCallPerChat == \A c \in Chats : InFlight(c) <= 1

\* C5: when a task T was dispatched and then cancelled with cancelCurrent, the
\* completeTask(chat, T.id) that arrives afterwards is a no-op: it changes
\* neither isProcessing nor currentTask nor the queue, whatever was done in
\* between.
C5_SecondIsNoOp ==
    [][\A c \in Chats :
        (lastCancelled[c] # 0 /\ CompleteTask(c, lastCancelled[c]))
        => queues'[c] = queues[c]]_vars

\* C6: cancelCurrent on a chat with a processing task T returns success with
\* T's id, removes exactly T from the queue (the other tasks stay, in order,
\* all pending), resets isProcessing and currentTask; the startProcessing
\* that follows returns the oldest remaining task, or null when none remains,
\* and no later startProcessing returns T.
C6_CancelRemovesCurrent ==
    /\ [][\A c \in Chats :
            (queues[c].isProcessing /\ CancelCurrent(c))
            => /\ ret'.ok /\ ret'.val = queues[c].currentTask.id
               /\ queues'[c].queue = RemoveId(queues[c].queue, queues[c].currentTask.id)
               /\ Len(queues'[c].queue) = Len(queues[c].queue) - 1
               /\ \A i \in 1..Len(queues'[c].queue) :
                     queues'[c].queue[i].status = "pending"
               /\ ~queues'[c].isProcessing
               /\ queues'[c].currentTask = NullTask
               /\ \A d \in Chats \ {c} : queues'[d] = queues[d]]_vars
    /\ [][\A c \in Chats :
            (ret.op = "cancelCurrent" /\ ret.ok /\ ret.chat = c /\ StartProcessing(c))
            => IF Len(queues[c].queue) = 0
               THEN ~ret'.ok /\ ret'.val = 0
               ELSE /\ ret'.ok
                    /\ ret'.val = queues[c].queue[1].id
                    /\ queues[c].queue[1].status = "pending"
                    /\ ret'.val # ret.val]_vars
    /\ [][\A c \in Chats :
            (lastCancelled[c] # 0 /\ StartProcessing(c))
            => ret'.val # lastCancelled[c]]_vars

C6_Witness ==
    /\ ret.op = "startProcessing" /\ ret.ok
    /\ lastCancelled[ret.chat] # 0
    /\ lastCancelled[ret.chat] < ret.val
    /\ Len(queues[ret.chat].queue) >= 2

\* C7: clearQueue leaves exactly the currently processing task when there is
\* one and nothing otherwise, and the clearedCount it returns is the number of
\* tasks it removed.
C7_ClearQueue ==
    [][\A c \in Chats :
        ClearQueue(c)
        => /\ queues'[c].queue =
                 (IF queues[c].isProcessing THEN <<queues[c].currentTask>> ELSE <<>>)
           /\ ret'.val = Len(queues[c].queue) - Len(queues'[c].queue)
           /\ queues'[c].isProcessing = queues[c].isProcessing
           /\ queues'[c].currentTask = queues[c].currentTask]_vars

C7_Witness ==
    /\ ret.op = "clearQueue" /\ ret.val = 5
    /\ queues[ret.chat].isProcessing
    /\ Len(queues[ret.chat].queue) = 1
    /\ queues[ret.chat].queue[1] = queues[ret.chat].currentTask

\* C8: no task in any queue has an empty prompt or a prompt longer than
\* MAX_TASK_CONTENT_LENGTH (10000) characters, addTask having rejected them.
C8_NoInvalidPrompt ==
    \A c \in Chats : \A i \in 1..Len(queues[c].queue) :
        /\ queues[c].queue[i].prompt > 0
        /\ queues[c].queue[i].prompt <= MAX_TASK_CONTENT_LENGTH

\* C9: isProcessing is true exactly when currentTask is not null.
C9_ProcessingIffCurrent ==
    \A c \in Chats : queues[c].isProcessing <=> (queues[c].currentTask # NullTask)

C9_Witness ==
    /\ ret.op = "completeTask"
    /\ lastDispatched[ret.chat] # 0
    /\ ~queues[ret.chat].isProcessing
    /\ queues[ret.chat].currentTask = NullTask
    /\ \E c \in Chats : queues[c].isProcessing /\ queues[c].currentTask.id # 0

\* C10: cancelCurrent on a chat with no processing task returns success:false
\* and changes neither the queue, isProcessing, currentTask, the registered
\* process handle, nor the signals delivered to any process, and schedules no
\* forced kill.
C10_CancelIdle ==
    [][\A c \in Chats :
        (~queues[c].isProcessing /\ CancelCurrent(c))
        => /\ ~ret'.ok
           /\ UNCHANGED <<queues, procSignals, killTimers>>]_vars

C10_Witness ==
    /\ ret.op = "cancelCurrent" /\ ~ret.ok
    /\ queues[ret.chat].currentProcess # NoProc
    /\ Len(queues[ret.chat].queue) >= 1
    /\ ~queues[ret.chat].isProcessing

\* C11: when N <= 10 tasks are enqueued for a chat and each is then dispatched
\* and completed with its own id, in order, every startProcessing that returns
\* a task returns the one enqueued right after the one returned before (so
\* each task is returned exactly once), and after the last completeTask
\* getStatus reports queueLength 0, isProcessing false, currentTask null.
C11_RunToCompletion ==
    /\ [](\A c \in CapChats :
            (ret.op = "completeTask" /\ lastDispatched[c] = nextId - 1)
            => /\ GetStatus(queues[c]).queueLength = 0
               /\ GetStatus(queues[c]).isProcessing = FALSE
               /\ GetStatus(queues[c]).currentTask = NullTask
               /\ GetStatus(queues[c]).pendingTasks = <<>>)
    /\ [][\A c \in CapChats :
            (StartProcessing(c) /\ ret'.ok)
            => /\ ret'.val = lastDispatched[c] + 1
               /\ ret'.val < nextId]_vars
    /\ [][\A c \in CapChats :
            (StartProcessing(c) /\ ~queues[c].isProcessing
               /\ lastDispatched[c] < nextId - 1)
            => ret'.ok]_vars

C11_Witness ==
    /\ ret.op = "completeTask"
    /\ nextId = MAX_QUEUE_SIZE + 1
    /\ lastDispatched["c1"] = MAX_QUEUE_SIZE
    /\ GetStatus(queues["c1"]).queueLength = 0

\* C12: /cancel handled for an authorised chat while an assistant call started
\* by an earlier message of that chat is running reports the cancellation
\* ("Task cancelled") and delivers a termination signal to a subprocess.
C12_CancelStopsCall ==
    [][\A c \in Chats :
        (IsAllowed(c) /\ Running(c) # {} /\ HandleCancel(c))
        => /\ ret'.ok
           /\ ret'.err = "Task cancelled"
           /\ procSignals' # procSignals]_vars

\* C13: updateSessionId called without a projectDir sets sessionId and keeps
\* the record's projectDir, called with one it sets both; and setProjectDir
\* sets projectDir, so that setProjectDir(c, p) followed by
\* updateSessionId(c, s) makes getSession(c) return projectDir p, sessionId s.
C13_UpdateSessionId ==
    /\ [][\A c \in Chats, sessionId \in StoreSessionIds,
            projectDir \in {NoDir} \cup ProjectDirs :
            CallUpdateSessionId(c, sessionId, projectDir)
            => /\ GetSession(sessions', c).exists
               /\ GetSession(sessions', c).sessionId = sessionId
               /\ GetSession(sessions', c).projectDir =
                     (IF projectDir = NoDir THEN GetSession(sessions, c).projectDir
                      ELSE projectDir)]_vars
    /\ [][\A c \in Chats, p \in ProjectDirs :
            CallSetProjectDir(c, p) => GetSession(sessions', c).projectDir = p]_vars
    /\ [][\A c \in Chats, sessionId \in StoreSessionIds :
            (lastCall = [op |-> "setProjectDir", chat |-> c,
                         projectDir |-> GetSession(sessions, c).projectDir]
               /\ CallUpdateSessionId(c, sessionId, NoDir))
            => /\ GetSession(sessions', c).projectDir = lastCall.projectDir
               /\ GetSession(sessions', c).sessionId = sessionId]_vars

C13_Witness ==
    /\ lastCall = [op |-> "updateSessionId", chat |-> "c1", projectDir |-> NoDir]
    /\ GetSession(sessions, "c1").projectDir = "/b"
    /\ GetSession(sessions, "c1").sessionId = "s1"

\* C14: clearSession leaves the record's projectDir as it was, sets sessionId
\* to null, and leaves the records of the other chats unchanged.
C14_ClearSession ==
    [][\A c \in Chats :
        CallClearSession(c)
        => /\ GetSession(sessions', c).projectDir = GetSession(sessions, c).projectDir
           /\ GetSession(sessions', c).sessionId = NullSid
           /\ \A d \in Chats \ {c} : GetSession(sessions', d) = GetSession(sessions, d)]_vars

C14_Witness ==
    /\ lastCall.op = "clearSession" /\ lastCall.chat = "c1"
    /\ GetSession(sessions, "c1").projectDir = "/b"
    /\ GetSession(sessions, "c1").sessionId = NullSid
    /\ GetSession(flushed, "c1").sessionId = "s1"
    /\ GetSession(sessions, "c2").projectDir = "/a"

\* C15: setProjectDir creates the record when the chat has none and otherwise
\* changes only projectDir (and updatedAt): sessionId and every other field of
\* the record keep their value, and so do the records of the other chats.
C15_SetProjectDir ==
    [][\A c \in Chats, p \in ProjectDirs :
        CallSetProjectDir(c, p)
        => /\ GetSession(sessions', c).exists
           /\ GetSession(sessions', c).projectDir = p
           /\ GetSession(sessions', c).sessionId = GetSession(sessions, c).sessionId
           /\ GetSession(sessions', c).extra = GetSession(sessions, c).extra
           /\ \A d \in Chats \ {c} : GetSession(sessions', d) = GetSession(sessions, d)]_vars

C15_Witness ==
    /\ lastCall = [op |-> "setProjectDir", chat |-> "c1", projectDir |-> "/b"]
    /\ GetSession(sessions, "c1") =
          [exists |-> TRUE, projectDir |-> "/b", sessionId |-> "s1", extra |-> "x"]
    /\ ~GetSession(flushed, "c2").exists /\ GetSession(sessions, "c2").exists

\* a step that is one of the mutating calls of the SessionManager
StoreMutation ==
    \E c \in Chats :
        \/ \E sessionInfo \in SessionInfos : CallSetSession(c, sessionInfo)
        \/ \E sessionId \in StoreSessionIds, projectDir \in {NoDir} \cup ProjectDirs :
              CallUpdateSessionId(c, sessionId, projectDir)
        \/ \E projectDir \in ProjectDirs : CallSetProjectDir(c, projectDir)
        \/ CallClearSession(c)

\* C16: persistence of the session store is debounced: at most one save timer
\* is pending at any time, and one is pending whenever a mutation is
\* unwritten; a mutation writes nothing itself and leaves exactly one timer
\* pending; the mutations made while that timer is pending lead to exactly
\* one write, made when the timer fires, and that write puts the whole
\* in-memory map, as it is at that moment, into the data file.
C16_Debounce ==
    /\ [](/\ saveTimers <= 1
          /\ windowWrites <= 1
          /\ (pendingSave => saveTimers = 1)
          /\ (saveTimers = 1 => saveTimer))
    /\ [][StoreMutation
            => /\ dataFile' = dataFile
               /\ saveTimers' = 1
               /\ pendingSave'
               /\ windowWrites' = 0]_vars
    /\ [][\A written \in BOOLEAN :
            (pendingSave /\ StoreTimerFires(written))
            => /\ windowWrites' = 1
               /\ saveTimers' = 0
               /\ ~pendingSave'
               /\ (written => Load(dataFile') = sessions)]_vars

C16_Witness ==
    /\ lastCall.op = "timer"
    /\ burst >= 3
    /\ windowWrites = 1
    /\ saveTimers = 0
    /\ Load(dataFile) = sessions
    /\ GetSession(sessions, "c1").exists /\ GetSession(sessions, "c2").exists

\* C17: the data file always holds the map as it was at the last completed
\* write (a mutation does not touch the file), so a store restarted after a
\* crash holds exactly that map: the mutations made since, whose debounced
\* write has not fired, are gone, and everything written before is there.
C17_CrashLosesWindow ==
    /\ [](Load(dataFile) = flushed)
    /\ [][StoreMutation => /\ dataFile' = dataFile
                           /\ flushed' = flushed]_vars
    /\ [][Restart => /\ sessions' = flushed
                     /\ ~pendingSave' /\ saveTimers' = 0]_vars

C17_Witness ==
    /\ lastCall.op = "restart"
    /\ lost
    /\ GetSession(sessions, "c1").projectDir = "/a"
    /\ GetSession(sessions, "c1").sessionId = NullSid

\* C18: whatever setShortcut and deleteShortcut calls were made on the empty
\* store, every stored name is 1 to 20 characters of [a-z0-9_] and is not a
\* reserved name, and every stored command has at most 1000 characters and
\* matches no blocked pattern; and a setShortcut that returns an error leaves
\* the store and its file as they were.
C18_StoredShortcutsValid ==
    /\ [](\A c \in Chats : \A name \in DOMAIN shortcuts[c].own :
            /\ Len(name) >= 1 /\ Len(name) <= 20
            /\ \A i \in 1..Len(name) : name[i] \in WordChars
            /\ name \notin ReservedNames
            /\ StringLength(shortcuts[c].own[name].command) <= 1000
            /\ ~BlockedPattern(shortcuts[c].own[name].command))
    /\ [][(sret'.op = "setShortcut" /\ ~sret'.success)
            => /\ shortcuts' = shortcuts
               /\ shortcutsFile' = shortcutsFile]_vars

C18_Witness ==
    /\ sret.op = "setShortcut" /\ ~sret.success
    /\ sret.error = "Command contains blocked dangerous pattern"
    /\ Rep("a", 20) \in DOMAIN shortcuts["c1"].own
    /\ <<"a">> \in DOMAIN shortcuts["c1"].own
    /\ StringLength(shortcuts["c1"].own[<<"a">>].command) = 1000

\* C19: no chat has more than MAX_SHORTCUTS_PER_USER (20) shortcuts: for a
\* chat that has 20, setShortcut with a new valid name fails and leaves store
\* and file as they were, and setShortcut with a stored name and a valid
\* command succeeds with isUpdate true, replaces the command, keeps createdAt
\* and every other shortcut, the count staying 20.
C19_ShortcutCap ==
    /\ [](\A c \in Chats : KeyCount(shortcuts[c]) <= 20)
    /\ [][\A c \in CapChats, i \in 1..(MAX_SHORTCUTS_PER_USER + 1),
            command \in CapCommands, now \in Times :
            (KeyCount(shortcuts[c]) = 20
               /\ SetShortcut(c, Str(NthName(i)), command, now, TRUE))
            => IF NthName(i) \in DOMAIN shortcuts[c].own
               THEN /\ sret'.success /\ sret'.isUpdate
                    /\ sret'.name = NthName(i)
                    /\ shortcuts'[c].own[NthName(i)].command = command.chars
                    /\ shortcuts'[c].own[NthName(i)].createdAt =
                          shortcuts[c].own[NthName(i)].createdAt
                    /\ KeyCount(shortcuts'[c]) = 20
                    /\ \A name \in DOMAIN shortcuts[c].own \ {NthName(i)} :
                          shortcuts'[c].own[name] = shortcuts[c].own[name]
               ELSE /\ ~sret'.success
                    /\ shortcuts' = shortcuts
                    /\ shortcutsFile' = shortcutsFile]_vars

C19_Witness ==
    /\ sret.op = "setShortcut" /\ sret.success /\ sret.isUpdate
    /\ KeyCount(shortcuts["c1"]) = 20
    /\ shortcuts["c1"].own[Rep("a", 20)].command = <<"y">>
    /\ shortcuts["c1"].own[Rep("a", 20)].createdAt = "t1"

\* C20: deleteShortcut succeeds exactly when a shortcut whose name equals the
\* given name, case ignored, is stored for the chat, and then removes that
\* shortcut and nothing else; for a name that is not stored it fails and
\* leaves the store and its file as they were.
C20_DeleteShortcut ==
    [][\A c \in Chats, name \in NameInputs \ {NotAString} :
        DeleteShortcut(c, name, TRUE)
        => LET stored == ToLowerCase(name.chars) \in DOMAIN shortcuts[c].own
           IN /\ sret'.success <=> stored
              /\ stored =>
                    /\ DOMAIN shortcuts'[c].own =
                          DOMAIN shortcuts[c].own \ {ToLowerCase(name.chars)}
                    /\ \A n \in DOMAIN shortcuts'[c].own :
                          shortcuts'[c].own[n] = shortcuts[c].own[n]
                    /\ \A d \in Chats \ {c} : shortcuts'[d] = shortcuts[d]
              /\ ~stored =>
                    /\ shortcuts' = shortcuts
                    /\ shortcutsFile' = shortcutsFile]_vars

\* the digits a placeholder starts with, and the number they write
RECURSIVE LeadingDigits(_)
LeadingDigits(str) ==
    IF str = <<>> \/ Head(str) \notin DigitChars THEN <<>>
    ELSE <<Head(str)>> \o LeadingDigits(Tail(str))

RECURSIVE NumberOf(_)
NumberOf(digits) ==
    IF digits = <<>> THEN 0
    ELSE 10 * NumberOf(SubSeq(digits, 1, Len(digits) - 1))
         + (CHOOSE d \in 0..9 : DigitOf[d + 1] = digits[Len(digits)])

\* the template with every placeholder replaced by the argument of its
\* index, or removed when there is no such argument; the arguments are
\* inserted as they are
RECURSIVE PositionalExpand(_, _)
PositionalExpand(template, args) ==
    IF template = <<>> THEN <<>>
    ELSE IF Len(template) >= 2 /\ template[1] = "$" /\ template[2] \in DigitChars
    THEN LET digits == LeadingDigits(Tail(template))
             n == NumberOf(digits)
         IN (IF n \in 1..Len(args) THEN args[n] ELSE <<>>)
            \o PositionalExpand(SubSeq(template, Len(digits) + 2, Len(template)), args)
    ELSE <<Head(template)>> \o PositionalExpand(Tail(template), args)

\* the first token of a message names a shortcut stored for the chat
NamesStoredShortcut(c, message) ==
    /\ message # <<>> /\ Head(message) = "/"
    /\ ToLowerCase(Split(Tail(message))[1]) \in DOMAIN shortcuts[c].own

\* C21: expandShortcut on a message whose first token names a stored
\* shortcut returns the template with each placeholder $i replaced by the
\* i-th argument, verbatim and by position (also for indexes of several
\* digits), the placeholders without an argument removed, and the result
\* trimmed.
C21_ExpandPositional ==
    (expanded.op = "expand" /\ NamesStoredShortcut(expanded.chat, expanded.message))
    => LET parts == Split(Tail(expanded.message))
           template == shortcuts[expanded.chat].own[ToLowerCase(parts[1])].command
       IN expanded.value = StringValue(Trim(PositionalExpand(template, Tail(parts))))

C23_WriteThrough ==
    /\ [](sret.success => shortcutsFile = StringifyShortcuts(shortcuts))
    /\ [][(sret'.op # "none" /\ ~sret'.success) => shortcutsFile' = shortcutsFile]_vars

\* the invocation made by the step, when the step is a call of callClaude
Called == Len(invocations') = Len(invocations) + 1

LastInvocation == invocations'[Len(invocations')]

\* C24: callClaude with a prompt that is no string, is empty or is longer
\* than 10000 characters returns the input-error result (success false),
\* writes no prompt file and spawns no subprocess, also when an adapter made
\* the call; a message longer than the limit makes handleMessage call
\* nothing.
C24_PromptRejected ==
    /\ [](\A i \in DOMAIN invocations :
             LET inv == invocations[i]
             IN (~inv.prompt.isString \/ inv.prompt.length = 0
                 \/ inv.prompt.length > 10000)
                => /\ inv.result = Result("Input error", NullSid, FALSE, FALSE)
                   /\ inv.tempFile = NoTempFile
                   /\ inv.child = "none" /\ inv.command = "none"
                   /\ inv.timer = "none")
    /\ [][(Called /\ LastInvocation.child = "none"
           /\ LastInvocation.result.result = "Input error")
          => tempFiles' = tempFiles]_vars
    /\ [][\A c \in CapChats :
             TgOnMessage(c, MAX_MESSAGE_LENGTH + 1)
             => calls' = calls /\ invocations' = invocations]_vars

\* an adapter has passed a text longer than the limit on, and callClaude has
\* rejected it, after a direct call with a prompt that is no string
C24_Witness ==
    \E i \in DOMAIN invocations, j \in DOMAIN invocations :
        /\ invocations[i].caller # Direct
        /\ invocations[i].prompt.length > 10000
        /\ invocations[i].result.result = "Input error"
        /\ invocations[j].caller = Direct
        /\ ~invocations[j].prompt.isString
        /\ invocations[j].result.result = "Input error"

\* the session ids of the model that the pattern does not accept
MalformedSessionIds == {"short", "word", "shell"}

\* C25: callClaude given a session id that is not made of at least 8 hex
\* digits and hyphens resolves with the invalid-session-id result (success
\* false), spawns nothing, builds no command line and removes the prompt
\* file; a command line with --resume is built only for a session id that
\* the pattern accepts.
C25_SessionIdRejected ==
    /\ [](\A i \in DOMAIN invocations :
             LET inv == invocations[i]
             IN /\ (inv.sessionId \in MalformedSessionIds /\ inv.tempFile # NoTempFile)
                   => /\ inv.result
                         = Result("Invalid session ID format", NullSid, FALSE, FALSE)
                      /\ inv.child = "none" /\ inv.command = "none"
                      /\ inv.timer = "none"
                /\ inv.command = "resume"
                   => inv.sessionId \in {"s1", "s2"} /\ inv.child # "none")
    /\ [][(Called /\ LastInvocation.sessionId \in MalformedSessionIds
           /\ LastInvocation.tempFile # NoTempFile)
          => LastInvocation.tempFile \notin tempFiles']_vars

\* a call with a malformed session id was rejected after its prompt file was
\* written, and a call with a well-formed one runs with --resume
C25_Witness ==
    \E i \in DOMAIN invocations, j \in DOMAIN invocations :
        /\ invocations[i].sessionId = "shell"
        /\ invocations[i].result.result = "Invalid session ID format"
        /\ invocations[i].tempFile # NoTempFile
        /\ invocations[i].tempFile \notin tempFiles
        /\ invocations[j].sessionId = "short"
        /\ invocations[j].child = "none"

\* C26: when the timeout fires before the subprocess has closed, the
\* subprocess is sent SIGTERM and the result is the timeout failure, which
\* no later close or error event changes; when the subprocess closes first,
\* the timer is cleared and no signal is sent; the promise is settled once.
C26_TimeoutOrClose ==
    /\ [](\A i \in DOMAIN invocations :
             LET inv == invocations[i]
             IN /\ inv.timer = "fired"
                   => /\ inv.sigterm = 1
                      /\ inv.result.resolved /\ ~inv.result.success
                      /\ inv.result.result = "Request timed out after 300 seconds"
                      /\ ~inv.result.invalidSession
                /\ inv.timer = "cleared"
                   => /\ inv.sigterm = 0
                      /\ inv.result.resolved
                      /\ inv.result.result # "Request timed out after 300 seconds"
                /\ inv.child = "closed" => inv.timer \in {"fired", "cleared"}
                /\ inv.timer = "pending" => ~inv.result.resolved)
    /\ [][\A i \in DOMAIN invocations :
             /\ invocations[i].result.resolved
                => invocations'[i].result = invocations[i].result
             /\ invocations[i].timer \in {"fired", "cleared"}
                => invocations'[i].timer = invocations[i].timer
                   /\ invocations'[i].sigterm = invocations[i].sigterm]_vars

\* a subprocess closed with code 0 and a session id after its call had timed
\* out, and the result is still the timeout failure
C26_Witness ==
    \E i \in DOMAIN invocations :
        /\ invocations[i].timer = "fired"
        /\ invocations[i].child = "closed"
        /\ invocations[i].code = "0"
        /\ invocations[i].result = TimeoutResult

\* C27: the result of callClaude has a true invalidSession only if the
\* subprocess closed with a code other than 0 and its error output contains
\* a session marker; the results of a timeout, a spawn failure, a rejected
\* input, an exit with code 0 and a failure without marker have none.
C27_InvalidSessionFlag ==
    \A i \in DOMAIN invocations :
        LET inv == invocations[i]
        IN /\ inv.result.invalidSession
              => /\ inv.child = "closed"
                 /\ inv.code \in {"1", "null"}
                 /\ \E k \in 1..Len(inv.stderr) :
                       inv.stderr[k] \in {"No conversation found with session ID",
                                          "Invalid session", "session not found"}
                 /\ inv.timer = "cleared"
                 /\ ~inv.result.success
           /\ (inv.timer = "fired" \/ inv.code \in {"0", SpawnErrorCode}
               \/ inv.child = "none")
              => ~inv.result.invalidSession

\* a subprocess closed with code 1 and a marker on stderr, and the result
\* carries the flag
C27_Witness ==
    \E i \in DOMAIN invocations :
        /\ invocations[i].result.invalidSession
        /\ invocations[i].code = "1"
        /\ invocations[i].stderr = <<"session not found", "\n">>

\* an invocation has finished: its promise is settled and no event of its
\* subprocess is still to come
Finished(i) ==
    /\ invocations[i].result.resolved
    /\ invocations[i].child \in {"none", "closed"}
    /\ invocations[i].timer # "pending"

\* C29: once a call of callClaude that wrote a prompt file has finished, on
\* whatever path (exit with any code, timeout and exit, rejected session id,
\* failed spawn), the prompt file is gone, unless an unfinished call uses a
\* file of the same name.
C29_TempFileRemoved ==
    \A i \in DOMAIN invocations :
        (/\ Finished(i)
         /\ invocations[i].tempFile # NoTempFile
         /\ \A j \in DOMAIN invocations :
               invocations[j].tempFile = invocations[i].tempFile => Finished(j))
        => invocations[i].tempFile \notin tempFiles

\* the invocations of a chat whose promise the step settles
SettledFor(c) ==
    {i \in DOMAIN invocations' :
        /\ invocations'[i].caller = c
        /\ invocations'[i].result.resolved
        /\ (i \in DOMAIN invocations => ~invocations[i].result.resolved)}

\* C28: when a call made by the adapter for a chat is settled, the stored
\* sessionId of the chat becomes the returned session id if the call
\* succeeded and returned one, becomes null if the result has the
\* invalidSession flag and a session id was sent, and otherwise (timeout,
\* failed spawn, failure without marker, rejected input) the stored session
\* is left exactly as it was; no other step of a call changes it.
C28_SessionAfterCall ==
    [][\A c \in Chats :
          IF SettledFor(c) = {} THEN sessions'[c] = sessions[c]
          ELSE \A i \in SettledFor(c) :
                  LET inv == invocations'[i]
                      r == inv.result
                  IN IF r.success /\ r.sessionId # NullSid
                     THEN sessions'[c].sessionId = r.sessionId
                     ELSE IF r.invalidSession /\ inv.sessionId # NullSid
                     THEN /\ sessions'[c].sessionId = NullSid
                          /\ sessions'[c].projectDir = sessions[c].projectDir
                     ELSE sessions'[c] = sessions[c]]_vars

\* a call that sent the stored session id failed with code 1 and no marker,
\* and the stored session is the one the bot started with
C28_Witness ==
    \E i \in DOMAIN invocations :
        /\ invocations[i].caller = "c1"
        /\ invocations[i].sessionId = "s2"
        /\ invocations[i].code = "1"
        /\ invocations[i].stderr = <<"Error: ", "rate limit">>
        /\ invocations[i].result.resolved /\ ~invocations[i].result.success
        /\ sessions["c1"].sessionId = "s2" /\ sessions["c1"].projectDir = "/a"

\* a chat that isAllowed has to refuse: there is no whitelist, or there is
\* one and the chat is not on it
Refused(c) == allowedChatIds = {} \/ c \notin allowedChatIds

\* what no message of a refused chat may change
Stores == <<sessions, dataFile, shortcuts, shortcutsFile, queues, calls,
            invocations, tempFiles>>

\* C30: with requireAuth at its default, isAllowed is false for every chat
\* when no whitelist is configured and for every chat that is not on a
\* configured whitelist; no call of the assistant is ever made or pending
\* for such a chat, its session, shortcuts and task queue stay as they were
\* at the start, without a whitelist the two files stay as they were, and a
\* message or command of such a chat changes no store of any chat.
C30_RefusedWithoutWhitelist ==
    /\ [](\A c \in Chats : Refused(c) =>
             /\ ~IsAllowed(c)
             /\ \A i \in DOMAIN invocations : invocations[i].caller # c
             /\ \A call \in DOMAIN calls : call.chat # c
             /\ sessions[c] = NoSession
             /\ shortcuts[c] = NoShortcuts
             /\ queues[c] = EmptyQueueData)
    /\ [](allowedChatIds = {} =>
             /\ dataFile = Stringify([c \in Chats |-> NoSession])
             /\ shortcutsFile = StringifyShortcuts([c \in Chats |-> NoShortcuts])
             /\ tempFiles = {})
    /\ [][\A c \in Chats : Refused(c) =>
             \/ UNCHANGED Stores
             \/ ~ \/ \E len \in RelayedLengths : TgOnMessage(c, len)
                  \/ \E message \in SlashMessages : TgOnSlashMessage(c, message)
                  \/ HandleNew(c)
                  \/ \E projectDir \in AuthDirs : HandleProject(c, projectDir)
                  \/ \E sessionId \in StoreSessionIds, cwd \in AuthDirs :
                        HandleResume(c, sessionId, cwd)
                  \/ HandleCancel(c)
                  \/ HandleQueueClear(c)
                  \/ \E name \in AuthNames, command \in AuthCommands :
                        HandleShortcutAdd(c, name, command, "t1", TRUE)
                  \/ \E name \in AuthNames : HandleShortcutDel(c, name, TRUE)]_vars

\* without a whitelist a chat has sent a text starting with '/', which the
\* bot has looked up in the shortcut store before refusing the chat
C30_Witness ==
    /\ allowedChatIds = {}
    /\ expanded.op = "expand" /\ expanded.chat \in Chats
    /\ expanded.message = <<"/", "a", " ", "y">>

\* a chat that is not on the whitelist has sent its text after the chat on
\* the whitelist has stored a shortcut and a session
RefusedBesideAllowed ==
    /\ allowedChatIds = {"c1"}
    /\ expanded.op = "expand" /\ expanded.chat = "c2"
    /\ shortcuts["c1"] # NoShortcuts
    /\ sessions["c1"].sessionId = "s1"

\* the handle cancelCurrent finds registered when it cancels a task
CancelsWithHandle(c) ==
    /\ ret'.op = "cancelCurrent" /\ ret'.chat = c /\ ret'.ok
    /\ lastCancelled'[c] # lastCancelled[c]
    /\ queues[c].currentProcess # NoProc

\* C31: cancelCurrent on a chat whose processing task has a registered
\* handle delivers SIGTERM to that process in the same step, and once the
\* forced-kill timers of the cancellations have run, every process that was
\* sent SIGTERM (none of them ends in this specification) has been sent
\* SIGKILL.
C31_ForcedKill ==
    /\ [][\A c \in Chats :
            CancelsWithHandle(c) =>
               "SIGTERM" \in procSignals'[queues[c].currentProcess]]_vars
    /\ [](\A p \in Procs :
             ("SIGTERM" \in procSignals[p] /\ \A c \in Chats : killTimers[c] = 0)
             => "SIGKILL" \in procSignals[p])

\* C32: a forced kill reaches only a process that was cancelled: every
\* process that has been sent SIGKILL was sent SIGTERM by a cancelCurrent
\* before.
C32_KillOnlyCancelled ==
    \A p \in Procs :
        "SIGKILL" \in procSignals[p] => "SIGTERM" \in procSignals[p]

\* C33: an idle chat has no stored handle, and the handle cancelCurrent
\* signals was registered for the task it cancels.
C33_HandleOfCurrentTask ==
    /\ [](\A c \in Chats :
             ~queues[c].isProcessing => queues[c].currentProcess = NoProc)
    /\ [][\A c \in Chats :
            CancelsWithHandle(c) =>
               queues[c].currentProcess = ret'.val]_vars

\* cancelCurrent for a task signals the handle of an earlier, completed task
StaleHandleSignalled ==
    \E p \in Procs :
        /\ ret.op = "cancelCurrent" /\ ret.ok
        /\ "SIGTERM" \in procSignals[p]
        /\ p < ret.val
        /\ \A q \in Procs \ {p} : procSignals[q] = {}

\* a process inside acquireLock
Acquiring(p) ==
    savers[p].pc \in {"existsSync", "statSync", "unlinkStale", "waitCheck",
                      "spin", "writeLock"}

\* a process between its completed acquireLock and its releaseLock
Holding(p) == savers[p].pc \in {"writeData", "releaseLock"}

\* the process makes its next file-system call
Moves(p) == savers'[p].pc # savers[p].pc

\* C34: every acquireLock returns; a lock file older than 10 seconds is
\* unlinked by the caller that stats it and written anew by it without any
\* wait; a caller that has waited more than 5 seconds unlinks the lock file
\* and writes its own; and after the write
\* of sessions.json, gone through or not, releaseLock follows and leaves no
\* lock file.
C34_LockAcquired ==
    /\ \A p \in OsProcs : Acquiring(p) ~> Holding(p)
    /\ [][\A p \in OsProcs :
            /\ (savers[p].pc = "statSync" /\ Moves(p)
                /\ lockFile.exists /\ lockFile.age > LOCK_STALE_MS)
               => savers'[p].pc = "unlinkStale"
            /\ (savers[p].pc = "unlinkStale" /\ Moves(p))
               => ~lockFile'.exists /\ savers'[p].pc = "writeLock"
            /\ (savers[p].pc = "waitCheck" /\ Moves(p)
                /\ savers[p].waited > MAX_WAIT_MS)
               => ~lockFile'.exists /\ savers'[p].pc = "writeLock"
            /\ (savers[p].pc = "writeLock" /\ Moves(p))
               => /\ lockFile' = [exists |-> TRUE, pid |-> p, age |-> 0]
                  /\ Holding(p)'
            /\ (savers[p].pc = "writeData" /\ Moves(p) /\ savers'[p].pc # "dead")
               => savers'[p].pc = "releaseLock"
            /\ (savers[p].pc = "releaseLock" /\ Moves(p) /\ savers'[p].pc # "dead")
               => ~lockFile'.exists /\ savers'[p].pc = "idle"]_vars

\* a process has taken the lock by force, after more than 5 seconds, while
\* the other process is alive and has not released it
C34_Witness ==
    /\ savers["p1"].pc = "writeData"
    /\ savers["p1"].waited > MAX_WAIT_MS
    /\ savers["p2"].pc = "writeData"
    /\ lockFile.pid = "p1"

\* a process has taken over, without waiting, the lock file of a process
\* that died more than 10 seconds ago
StaleLockSeized ==
    /\ savers["p2"].pc = "dead"
    /\ savers["p1"].pc = "writeData"
    /\ savers["p1"].waited = 0
    /\ lockFile.pid = "p1"

\* C38: at no time are two processes both between a completed acquireLock
\* and their releaseLock, and releaseLock removes no lock file that another
\* process holds.
C38_MutualExclusion ==
    /\ [](\A p, q \in OsProcs : (p # q /\ Holding(p)) => ~Holding(q))
    /\ [][\A p, q \in OsProcs :
            (p # q /\ savers[p].pc = "releaseLock" /\ Moves(p)
             /\ savers'[p].pc = "idle" /\ Holding(q))
            => ~(lockFile.exists /\ lockFile.pid = q /\ ~lockFile'.exists)]_vars

\* releaseLock has removed the lock file written by a process that holds it
ReleaseRemovesForeignLock ==
    /\ savers["p1"].pc = "idle"
    /\ savers["p2"].pc = "writeData"
    /\ ~lockFile.exists

\* C35: task ids are handed out in increasing order, so a task is handed
\* out twice exactly when startProcessing returns an id that is not above
\* the one it returned last for the chat; this never happens.
C35_DispatchedOnce ==
    [][\A c \in Chats :
          (StartProcessing(c) /\ ret'.ok) => ret'.val > lastDispatched[c]]_vars

\* C36: the result of a call never replaces a projectDir stored while the
\* call was in flight, and never stores a session id over the null that
\* /new has left while the call was in flight: a call that finds the stored
\* projectDir different from the one it read leaves it, and a call that
\* sent a session id and finds the stored one null leaves it null.
C36_CommandNotUndone ==
    [][\A call \in DOMAIN calls, outcome \in CloseOutcomes :
          CallCloses(call, outcome) =>
             /\ (sessions[call.chat].projectDir \notin {NoDir, call.projectDir})
                => sessions'[call.chat].projectDir = sessions[call.chat].projectDir
             /\ (call.sessionId # NullSid
                 /\ sessions[call.chat].sessionId = NullSid)
                => sessions'[call.chat].sessionId = NullSid]_vars

\* only the part of C36 about /new
NewNotUndone ==
    [][\A call \in DOMAIN calls, outcome \in CloseOutcomes :
          (CallCloses(call, outcome) /\ call.sessionId # NullSid
           /\ sessions[call.chat].sessionId = NullSid)
          => sessions'[call.chat].sessionId = NullSid]_vars

\* the names handleCommand dispatches on
CommandNames ==
    {<<"s", "t", "a", "r", "t">>,
     <<"h", "e", "l", "p">>,
     <<"n", "e", "w">>,
     <<"s", "t", "a", "t", "u", "s">>,
     <<"p", "r", "o", "j", "e", "c", "t">>,
     <<"s", "e", "s", "s", "i", "o", "n", "s">>,
     <<"r", "e", "s", "u", "m", "e">>,
     <<"p", "r", "o", "j", "e", "c", "t", "s">>,
     <<"c", "a", "n", "c", "e", "l">>,
     <<"q", "u", "e", "u", "e">>,
     <<"s", "h", "o", "r", "t", "c", "u", "t">>,
     <<"e", "x", "p", "o", "r", "t">>}

\* C37: no shortcut a chat has stored bears the name of a built-in command,
\* so that no command is expanded instead of being dispatched
C37_NoBuiltinShadowed ==
    \A c \in Chats : \A name \in CommandNames : ~HasOwnProperty(shortcuts[c], name)

\* the text /shortcut del shortcut has been expanded and relayed instead of
\* deleting the shortcut
ShortcutDelShadowed ==
    /\ expanded.op = "expand"
    /\ Len(expanded.message) >= 13
    /\ SubSeq(expanded.message, 1, 13)
         = <<"/", "s", "h", "o", "r", "t", "c", "u", "t", " ", "d", "e", "l">>
    /\ expanded.value.kind = "string"
    /\ HasOwnProperty(shortcuts[expanded.chat], <<"s", "h", "o", "r", "t", "c", "u", "t">>)

\* no save timer is pending and the file holds the map as it is in memory
Persisted ==
    /\ ~saveTimer
    /\ saveTimers = 0
    /\ dataFile = Stringify(sessions)

\* the map is marked dirty and the timer that will write it is armed
Scheduled ==
    /\ pendingSave
    /\ saveTimer
    /\ saveTimers > 0

\* C39: while the process runs and its writes go through, the map is at
\* every moment either written to the file with no timer pending, or marked
\* dirty with the timer armed; and a dirty map is eventually written, after
\* which no timer is pending
C39_EventuallyPersisted ==
    /\ [](Persisted \/ Scheduled)
    /\ (Scheduled ~> Persisted)

\* the timer has written a map that was changed more than once while the
\* timer was pending
C39_Witness ==
    /\ lastCall.op = "timer"
    /\ burst >= 2
    /\ Persisted
    /\ flushed = sessions
    /\ \E c \in Chats : sessions[c] # NoSession

\* the invocations whose subprocess runs
RunningInvocations == {i \in DOMAIN invocations : invocations[i].child = "running"}

\* C40: two invocations whose subprocesses run at the same time have prompt
\* files of different names, and the prompt file of a running subprocess is
\* there until that subprocess exits
C40_OwnPromptFile ==
    /\ \A i, j \in RunningInvocations :
          i # j => invocations[i].tempFile # invocations[j].tempFile
    /\ \A i \in RunningInvocations : invocations[i].tempFile \in tempFiles

\* the exit of one subprocess has removed the prompt file of another one
\* that still runs
PromptFileRemovedByOther ==
    \E i \in RunningInvocations : \E j \in DOMAIN invocations :
        /\ j # i
        /\ invocations[j].child = "exited"
        /\ invocations[j].tempFile = invocations[i].tempFile
        /\ invocations[i].tempFile \notin tempFiles

====
